---- MODULE Spec2Model ----
(***************************************************************************)
(* Verification model of cold-clear-2.                                     *)
(*                                                                         *)
(* Part I   the shared harness: SharedState (sharing.rs) and               *)
(*          BotSyncronizer (sync.rs), one coordinator and the workers.     *)
(* Part II  the search DAG (dag.rs) driven by Freestyle::do_work.          *)
(***************************************************************************)
EXTENDS Integers, Sequences, FiniteSets, TLC

(***************************************************************************)
(* Part I: the shared harness                                              *)
(***************************************************************************)

\* bounds of the harness model
MaxOps == 2
MaxNodes == 1

Workers == {"w1", "w2"}
Coord == "coord"
NoOne == "none"
Harnesses == {"sharing", "sync"}
Ops == {"start", "stop", "advance", "new_piece", "suggest"}

VARIABLES
    harness,      \* which harness the run uses: SharedState or BotSyncronizer
    mutex,        \* owner of access_control (sharing.rs) / state (sync.rs)
    writer,       \* owner of the write guard of the bot RwLock
    writer_bit,   \* parking_lot WRITER_BIT taken by a writer still waiting for readers
    readers,      \* owners of read guards of the bot RwLock
    data,         \* Option<Bot>: <<>> is None, <<v>> is Some(bot in version v)
    pc,           \* position of every worker in read_op / work_loop
    cop,          \* operation the coordinator is executing, or "idle"
    cidx,         \* coordinator's position in Script(harness, cop)
    opsDone,      \* number of coordinator operations begun
    stats,        \* State.stats.nodes
    new_stats,    \* Statistics.nodes returned by each worker's last do_work
    nodesMade,    \* total of nodes produced by all cycles
    workBot,      \* history: the bot a worker's current cycle started with
    epoch,        \* history: number of statistics resets so far
    cycleEpoch,   \* history: epoch in which a worker's last do_work was performed
    expected      \* history: sum of nodes of the accumulated cycles performed since the last reset

hvars == <<harness, mutex, writer, writer_bit, readers, data, pc, cop, cidx,
           opsDone, stats, new_stats, nodesMade, workBot, epoch, cycleEpoch, expected>>

\* The statement sequence of each coordinator operation.
Script(h, op) ==
    IF h = "sharing" THEN
        CASE op = "start"     -> <<"lock", "wacq", "assign", "wrel", "notify", "unlock">>
          [] op = "stop"      -> <<"lock", "wacq", "assign", "wrel", "unlock">>
          [] op = "advance"   -> <<"lock", "wacq", "unlock", "assign", "wrel">>
          [] op = "new_piece" -> <<"lock", "wacq", "unlock", "assign", "wrel">>
          [] op = "suggest"   -> <<"lock", "racq", "unlock", "read", "rrel">>
    ELSE
        CASE op = "start"     -> <<"lock", "reset", "wreq", "wacq", "assign", "wrel", "notify", "unlock">>
          [] op = "stop"      -> <<"wreq", "wacq", "assign", "wrel">>
          [] op = "advance"   -> <<"lock", "reset", "wreq", "wacq", "assign", "notify", "wrel", "unlock">>
          [] op = "new_piece" -> <<"wreq", "wacq", "assign", "notify", "wrel">>
          [] op = "suggest"   -> <<"racq", "lock", "read", "unlock", "rrel">>

Step == IF cop = "idle" THEN "idle" ELSE Script(harness, cop)[cidx]

\* RwLock::write is granted when no guard of either kind is out.
CanWriteNoWait(rs, wr) == wr = NoOne
CanWrite(rs, wr) == rs = {} /\ wr = NoOne

\* RwLock::read is granted when no writer holds the lock; parking_lot also
\* refuses it while a writer that took WRITER_BIT waits for the readers to leave.
CanReadBarging(wr, bit) == wr = NoOne
CanReadAlone(wr, bit) == wr = NoOne /\ ~bit /\ readers = {}
CanRead(wr, bit) == wr = NoOne /\ ~bit

\* match read_guard.as_ref() { None => ... }
IsNoneNever(d) == FALSE
IsNone(d) == d = <<>>

\* notify_all wakes every waiter of the condition variable.
NotifiedOne(ws) == IF ws = {} THEN {} ELSE {CHOOSE w \in ws : TRUE}
Notified(ws) == ws

Waiters == {w \in Workers : pc[w] = "wait"}

HInit ==
    /\ harness \in Harnesses
    /\ mutex = NoOne
    /\ writer = NoOne
    /\ writer_bit = FALSE
    /\ readers = {}
    /\ data = <<>>
    /\ pc = [w \in Workers |-> "lock"]
    /\ cop = "idle"
    /\ cidx = 1
    /\ opsDone = 0
    /\ stats = 0
    /\ new_stats = [w \in Workers |-> 0]
    /\ nodesMade = 0
    /\ workBot = [w \in Workers |-> <<>>]
    /\ epoch = 0
    /\ cycleEpoch = [w \in Workers |-> 0]
    /\ expected = 0

---------------------------------------------------------------------------
\* Workers: SharedState::read_op around Bot::do_work, BotSyncronizer::work_loop.

WLock(w) ==
    /\ pc[w] = "lock"
    /\ mutex = NoOne
    /\ mutex' = w
    /\ pc' = [pc EXCEPT ![w] = "read"]
    /\ UNCHANGED <<harness, writer, writer_bit, readers, data, cop, cidx, opsDone,
                   stats, new_stats, nodesMade, workBot, epoch, cycleEpoch, expected>>

WRead(w) ==
    /\ pc[w] = "read"
    /\ CanRead(writer, writer_bit)
    /\ readers' = readers \cup {w}
    /\ pc' = [pc EXCEPT ![w] = "check"]
    /\ UNCHANGED <<harness, mutex, writer, writer_bit, data, cop, cidx, opsDone,
                   stats, new_stats, nodesMade, workBot, epoch, cycleEpoch, expected>>

\* None: drop the read guard and wait on the condition variable, which releases
\* the mutex in the same step.  Some: drop the mutex and run the operation.
WCheck(w) ==
    /\ pc[w] = "check"
    /\ mutex' = NoOne
    /\ IF IsNone(data)
       THEN /\ readers' = readers \ {w}
            /\ pc' = [pc EXCEPT ![w] = "wait"]
            /\ UNCHANGED workBot
       ELSE /\ pc' = [pc EXCEPT ![w] = "do_work"]
            /\ workBot' = [workBot EXCEPT ![w] = data]
            /\ UNCHANGED readers
    /\ UNCHANGED <<harness, writer, writer_bit, data, cop, cidx, opsDone,
                   stats, new_stats, nodesMade, epoch, cycleEpoch, expected>>

\* std::sync::Condvar::wait may return without a notification.
WSpurious(w) ==
    /\ harness = "sharing"
    /\ pc[w] = "wait"
    /\ pc' = [pc EXCEPT ![w] = "lock"]
    /\ UNCHANGED <<harness, mutex, writer, writer_bit, readers, data, cop, cidx, opsDone,
                   stats, new_stats, nodesMade, workBot, epoch, cycleEpoch, expected>>

\* bot.do_work() returns its Statistics and the read guard is dropped.
WDoWork(w) ==
    /\ pc[w] = "do_work"
    /\ \E n \in 0..1 :
          /\ nodesMade + n <= MaxNodes
          /\ nodesMade' = nodesMade + n
          /\ new_stats' = [new_stats EXCEPT ![w] = n]
    /\ readers' = readers \ {w}
    /\ cycleEpoch' = [cycleEpoch EXCEPT ![w] = epoch]
    /\ pc' = [pc EXCEPT ![w] = IF harness = "sync" THEN "acc" ELSE "lock"]
    /\ UNCHANGED <<harness, mutex, writer, writer_bit, data, cop, cidx, opsDone,
                   stats, workBot, epoch, expected>>

\* state = self.state.lock(); state.stats.accumulate(new_stats); loop
WAccumulate(w) ==
    /\ pc[w] = "acc"
    /\ mutex = NoOne
    /\ mutex' = w
    /\ stats' = stats + new_stats[w]
    /\ expected' = expected + (IF cycleEpoch[w] = epoch THEN new_stats[w] ELSE 0)
    /\ pc' = [pc EXCEPT ![w] = "read"]
    /\ UNCHANGED <<harness, writer, writer_bit, readers, data, cop, cidx, opsDone,
                   new_stats, nodesMade, workBot, epoch, cycleEpoch>>

---------------------------------------------------------------------------
\* Coordinator: one operation at a time, statement by statement.

CAdvance ==
    IF cidx = Len(Script(harness, cop))
    THEN cop' = "idle" /\ cidx' = 1
    ELSE cop' = cop /\ cidx' = cidx + 1

CBegin(op) ==
    /\ cop = "idle"
    /\ opsDone < MaxOps
    /\ cop' = op
    /\ cidx' = 1
    /\ opsDone' = opsDone + 1
    /\ UNCHANGED <<harness, mutex, writer, writer_bit, readers, data, pc,
                   stats, new_stats, nodesMade, workBot, epoch, cycleEpoch, expected>>

\* BotSyncronizer::suggest skips its closure when the bot is absent.
SuggestSkips == harness = "sync" /\ cop = "suggest" /\ IsNone(data)

CLock ==
    /\ Step = "lock"
    /\ ~SuggestSkips
    /\ mutex = NoOne
    /\ mutex' = Coord
    /\ CAdvance
    /\ UNCHANGED <<harness, writer, writer_bit, readers, data, pc, opsDone,
                   stats, new_stats, nodesMade, workBot, epoch, cycleEpoch, expected>>

CSkip ==
    /\ Step = "lock"
    /\ SuggestSkips
    /\ cidx' = Len(Script(harness, cop))
    /\ UNCHANGED <<harness, mutex, writer, writer_bit, readers, data, pc, cop, opsDone,
                   stats, new_stats, nodesMade, workBot, epoch, cycleEpoch, expected>>

\* state.stats = Default::default()
CReset ==
    /\ Step = "reset"
    /\ stats' = 0
    /\ epoch' = epoch + 1
    /\ expected' = 0
    /\ CAdvance
    /\ UNCHANGED <<harness, mutex, writer, writer_bit, readers, data, pc, opsDone,
                   new_stats, nodesMade, workBot, cycleEpoch>>

CWReq ==
    /\ Step = "wreq"
    /\ ~writer_bit
    /\ writer_bit' = TRUE
    /\ CAdvance
    /\ UNCHANGED <<harness, mutex, writer, readers, data, pc, opsDone,
                   stats, new_stats, nodesMade, workBot, epoch, cycleEpoch, expected>>

CWAcq ==
    /\ Step = "wacq"
    /\ CanWrite(readers, writer)
    /\ writer' = Coord
    /\ CAdvance
    /\ UNCHANGED <<harness, mutex, writer_bit, readers, data, pc, opsDone,
                   stats, new_stats, nodesMade, workBot, epoch, cycleEpoch, expected>>

\* The operation's effect on the slot, under the write guard.
Assigned(op, d, v) ==
    CASE op = "start" -> <<v>>
      [] op = "stop"  -> <<>>
      [] OTHER        -> IF IsNone(d) THEN d ELSE <<v>>

CAssign ==
    /\ Step = "assign"
    /\ data' = Assigned(cop, data, opsDone)
    /\ CAdvance
    /\ UNCHANGED <<harness, mutex, writer, writer_bit, readers, pc, opsDone,
                   stats, new_stats, nodesMade, workBot, epoch, cycleEpoch, expected>>

CWRel ==
    /\ Step = "wrel"
    /\ writer' = NoOne
    /\ writer_bit' = FALSE
    /\ CAdvance
    /\ UNCHANGED <<harness, mutex, readers, data, pc, opsDone,
                   stats, new_stats, nodesMade, workBot, epoch, cycleEpoch, expected>>

CNotify ==
    /\ Step = "notify"
    /\ pc' = [w \in Workers |-> IF w \in Notified(Waiters) THEN "lock" ELSE pc[w]]
    /\ CAdvance
    /\ UNCHANGED <<harness, mutex, writer, writer_bit, readers, data, opsDone,
                   stats, new_stats, nodesMade, workBot, epoch, cycleEpoch, expected>>

CUnlock ==
    /\ Step = "unlock"
    /\ mutex' = NoOne
    /\ CAdvance
    /\ UNCHANGED <<harness, writer, writer_bit, readers, data, pc, opsDone,
                   stats, new_stats, nodesMade, workBot, epoch, cycleEpoch, expected>>

CRAcq ==
    /\ Step = "racq"
    /\ CanRead(writer, writer_bit)
    /\ readers' = readers \cup {Coord}
    /\ CAdvance
    /\ UNCHANGED <<harness, mutex, writer, writer_bit, data, pc, opsDone,
                   stats, new_stats, nodesMade, workBot, epoch, cycleEpoch, expected>>

\* bot.suggest() and MoveInfo { nodes: state.stats.nodes, .. }
CSuggest ==
    /\ Step = "read"
    /\ CAdvance
    /\ UNCHANGED <<harness, mutex, writer, writer_bit, readers, data, pc, opsDone,
                   stats, new_stats, nodesMade, workBot, epoch, cycleEpoch, expected>>

CRRel ==
    /\ Step = "rrel"
    /\ readers' = readers \ {Coord}
    /\ CAdvance
    /\ UNCHANGED <<harness, mutex, writer, writer_bit, data, pc, opsDone,
                   stats, new_stats, nodesMade, workBot, epoch, cycleEpoch, expected>>

CStep ==
    \/ CLock \/ CSkip \/ CReset \/ CWReq \/ CWAcq \/ CAssign
    \/ CWRel \/ CNotify \/ CUnlock \/ CRAcq \/ CSuggest \/ CRRel


(***************************************************************************)
(* Part II: the search DAG                                                 *)
(*                                                                         *)
(* The game is kept abstract: a board is the set of filled columns of a    *)
(* one-row field, a placement puts one piece into a free column, and no    *)
(* line is ever cleared, so a full board has no move.  Bag and reserve     *)
(* follow GameState::advance.  A node handle (the u64 hash of the state)   *)
(* is the state itself.  Evaluations are integers and E::average rounds    *)
(* down.                                                                   *)
(***************************************************************************)

Pieces == {"I", "O", "T"}
PieceSeq == <<"I", "O", "T">>
NoPiece == "none"
Cols == {1, 2}
ColSeq == <<1, 2>>
Layers == 0 .. (Len(ColSeq) + 1)

\* the queues a run may start with (the reserve is drawn from Pieces)
InitQueues == {<<>>, <<"O">>, <<"O", "T">>}

\* the pieces the frontend may append to the queue
NewPieces == {"O", "T"}

\* do_work cycles explored in one run, and in a longer run from an empty queue
MaxCycles == 3
MaxDeepCycles == 4

\* E::default() and the value E::average gives a piece without children
DefaultEval == 0
MissingEval == -1000

VARIABLES
    speculate,    \* BotOptions.speculate
    root,         \* Dag.root
    current,      \* Bot.current
    queue,        \* Bot.queue
    top,          \* number of layers retired so far: index of Dag.top_layer
    layer_piece,  \* Layer.piece of every layer of the chain
    states,       \* Layer.states of every layer: GameState -> Node
    locks,        \* write-locked shards: <<layer, shard>> -> owner
    wk,           \* per worker: position in do_work and its locals
    bot_panicked, \* the coordinator hit an unwrap/expect failure
    cycles,       \* do_work cycles the run may still begin
    promoted,     \* history: what the last advance found for the new root
    revealed,     \* history: layers whose piece add_piece set when they held expanded nodes
    refused,      \* history: <<layer, state>> at which a select found expanding already set
    selected      \* history: <<layer, state>> -> number of selections that returned the node

dvars == <<speculate, root, current, queue, top, layer_piece, states, locks, wk,
           bot_panicked, cycles, promoted, revealed, refused, selected>>

---------------------------------------------------------------------------
\* data.rs and movegen.rs, abstracted

\* find_moves(&board, piece): one placement per free column
FindMoves(board, piece) ==
    LET free == SelectSeq(ColSeq, LAMBDA c : c \notin board)
    IN  [i \in 1 .. Len(free) |-> [piece |-> piece, x |-> free[i]]]

\* GameState::advance: if self.bag.is_empty() { self.bag = EnumSet::all() }
RefillNever(bag) == bag
Refill(bag) == IF bag = {} THEN Pieces ELSE bag

\* GameState::advance: if placement.location.piece != next { self.reserve = next }
ReserveAlwaysNext(reserve, next, placed) == next
ReserveAfter(reserve, next, placed) == IF placed # next THEN next ELSE reserve

\* GameState::advance, restricted to board, bag and reserve
GsAdvance(s, next, mv) ==
    [board   |-> s.board \cup {mv.x},
     bag     |-> Refill(s.bag \ {next}),
     reserve |-> ReserveAfter(s.reserve, next, mv.piece)]

RECURSIVE SumSeq(_)
SumSeq(q) == IF q = <<>> THEN 0 ELSE Head(q) + SumSeq(Tail(q))

PieceRank(p) == CHOOSE i \in 1 .. Len(PieceSeq) : PieceSeq[i] = p

\* evaluate(): the eval depends on the resulting state, the reward on the placement
EvalOf(s) ==
    SumSeq([i \in 1 .. Len(ColSeq) |-> IF ColSeq[i] \in s.board THEN 2 * ColSeq[i] ELSE 0])
        + PieceRank(s.reserve)
RewardOf(mv) == IF mv.piece = "T" THEN 0 - mv.x ELSE mv.x

\* E::average over Option<E>
Average(opts) ==
    SumSeq([i \in 1 .. Len(opts) |-> IF opts[i] = <<>> THEN MissingEval ELSE opts[i][1]])
        \div Len(opts)

\* Option<E>::max: None is below every Some
OptMax(a, b) ==
    IF a = <<>> THEN b ELSE IF b = <<>> THEN a ELSE IF a[1] >= b[1] THEN a ELSE b

\* the pieces of a set in enum order
PiecesIn(set) == SelectSeq(PieceSeq, LAMBDA p : p \in set)

\* StateMap::bucket: the shard a handle falls into
ShardOf(s) == s.reserve

---------------------------------------------------------------------------
\* dag.rs

NewNode(eval, s) ==
    [parents |-> <<>>, eval |-> eval, children |-> <<>>, expanding |-> FALSE,
     bag |-> s.bag, reserve |-> s.reserve]

NoState == [board |-> {}, bag |-> {}, reserve |-> NoPiece]

Idle ==
    [pc |-> "idle", depth |-> 0, game_state |-> NoState, pending |-> <<>>,
     childs |-> <<>>, updates |-> <<>>, next_up |-> <<>>, index |-> 0]

\* StateMap::get_raw / get_raw_mut / get_raw_or_insert_with wait for the shard lock
LockFreeAlways(d, s) == TRUE
LockFree(d, s) == <<d, ShardOf(s)>> \notin DOMAIN locks

Acquire(d, s, w) == locks @@ (<<d, ShardOf(s)>> :> w)
ReleaseNever(d, s) == locks
Release(d, s) == [k \in DOMAIN locks \ {<<d, ShardOf(s)>>} |-> locks[k]]

\* next_possibilities
NextPossibilities(piece, bag) == IF piece = NoPiece THEN bag ELSE {piece}

\* AtomicBool::swap(true): the previous value and the stored one
SwapStale(flag) == [old |-> FALSE, new |-> TRUE]
SwapLoad(flag) == [old |-> flag, new |-> flag]
Swap(flag) == [old |-> flag, new |-> TRUE]

\* Freestyle::do_work: the ChildData generated for next piece `next`
ChildrenFor(s, next) ==
    LET own  == FindMoves(s.board, next)
        held == IF next = s.reserve THEN <<>> ELSE FindMoves(s.board, s.reserve)
        mvs  == own \o held
    IN  [i \in 1 .. Len(mvs) |->
            LET after == GsAdvance(s, next, mvs[i])
            IN  [piece |-> next, resulting_state |-> after, mv |-> mvs[i],
                 eval |-> EvalOf(after), reward |-> RewardOf(mvs[i])]]

RECURSIVE Flatten(_)
Flatten(qq) == IF qq = <<>> THEN <<>> ELSE Head(qq) \o Flatten(Tail(qq))

\* the (piece, ChildData) pairs expand() iterates over, in EnumMap order
Generate(s, piece) ==
    LET ps == PiecesIn(NextPossibilities(piece, s.bag))
    IN  Flatten([i \in 1 .. Len(ps) |-> ChildrenFor(s, ps[i])])

EmptyChilds == [p \in Pieces |-> <<>>]

DInit ==
    /\ speculate \in BOOLEAN
    /\ \E q \in InitQueues :
          /\ root = [board |-> {}, bag |-> Pieces \ {"I"}, reserve |-> "I"]
          /\ queue = q
          /\ layer_piece = [d \in Layers |-> IF d < Len(q) THEN q[d + 1] ELSE NoPiece]
    /\ current = root
    /\ top = 0
    /\ states = [d \in Layers |-> IF d = 0 THEN (root :> NewNode(DefaultEval, root)) ELSE <<>>]
    /\ locks = <<>>
    /\ wk = [w \in Workers |-> Idle]
    /\ bot_panicked = FALSE
    /\ cycles = MaxCycles
    /\ promoted = "none"
    /\ revealed = {}
    /\ refused = {}
    /\ selected = <<>>

AllIdle == \A w \in Workers : wk[w].pc = "idle"

\* a run of `n` cycles that starts with an empty queue and speculates
DagStart(n) ==
    /\ speculate = TRUE
    /\ root = [board |-> {}, bag |-> Pieces \ {"I"}, reserve |-> "I"]
    /\ queue = <<>>
    /\ layer_piece = [d \in Layers |-> NoPiece]
    /\ current = root
    /\ top = 0
    /\ states = [d \in Layers |-> IF d = 0 THEN (root :> NewNode(DefaultEval, root)) ELSE <<>>]
    /\ locks = <<>>
    /\ wk = [w \in Workers |-> Idle]
    /\ bot_panicked = FALSE
    /\ cycles = n
    /\ promoted = "none"
    /\ revealed = {}
    /\ refused = {}
    /\ selected = <<>>

DeepInit == DagStart(MaxDeepCycles)

\* Dag::select starts at the top layer with the root state
BeginCycle(w) ==
    /\ ~bot_panicked
    /\ wk[w].pc = "idle"
    /\ cycles > 0
    /\ cycles' = cycles - 1
    /\ wk' = [wk EXCEPT ![w] = [Idle EXCEPT !.pc = "select", !.depth = top, !.game_state = root]]
    /\ UNCHANGED <<speculate, root, current, queue, top, layer_piece, states, locks,
                   bot_panicked, promoted, revealed, refused, selected>>

Bump(f, k) == IF k \in DOMAIN f THEN [f EXCEPT ![k] = @ + 1] ELSE f @@ (k :> 1)

\* one iteration of the loop of Dag::select
Select(w) ==
    /\ wk[w].pc = "select"
    /\ LET d  == wk[w].depth
           gs == wk[w].game_state
       IN
       /\ LockFree(d, gs)
       /\ IF gs \notin DOMAIN states[d]
          THEN /\ wk' = [wk EXCEPT ![w].pc = "panic"]
               /\ UNCHANGED <<states, refused, selected>>
          ELSE
          LET node == states[d][gs] IN
          IF node.children = <<>>
          THEN LET r == Swap(node.expanding) IN
               /\ states' = [states EXCEPT ![d][gs].expanding = r.new]
               /\ IF r.old
                  THEN /\ wk' = [wk EXCEPT ![w] = Idle]
                       /\ refused' = refused \cup {<<d, gs>>}
                       /\ UNCHANGED selected
                  ELSE /\ wk' = [wk EXCEPT ![w].pc = "expand",
                                           ![w].pending = Generate(gs, layer_piece[d])]
                       /\ selected' = Bump(selected, <<d, gs>>)
                       /\ UNCHANGED refused
          ELSE
          /\ UNCHANGED <<states, refused, selected>>
          /\ IF ~speculate /\ layer_piece[d + 1] = NoPiece
             THEN wk' = [wk EXCEPT ![w] = Idle]
             ELSE \E next \in NextPossibilities(layer_piece[d], gs.bag) :
                    LET list == node.children[1][next] IN
                    IF list = <<>>
                    THEN wk' = [wk EXCEPT ![w] = Idle]
                    ELSE \E i \in 1 .. Len(list) :
                           wk' = [wk EXCEPT ![w].depth = d + 1,
                                            ![w].game_state = GsAdvance(gs, next, list[i].mv)]
    /\ UNCHANGED <<speculate, root, current, queue, top, layer_piece, locks, bot_panicked,
                   cycles, promoted, revealed>>

\* expand(): let mut parent = layer.states.get_raw_mut(parent_index).unwrap()
ExpandLock(w) ==
    /\ wk[w].pc = "expand"
    /\ LockFree(wk[w].depth, wk[w].game_state)
    /\ locks' = Acquire(wk[w].depth, wk[w].game_state, w)
    /\ wk' = [wk EXCEPT ![w].pc = "create", ![w].childs = EmptyChilds]
    /\ UNCHANGED <<speculate, root, current, queue, top, layer_piece, states,
                   bot_panicked, cycles, promoted, revealed, refused, selected>>

\* the key under which expand() looks a child up in the next layer
InsertKeyParent(parent_state, c) == parent_state
InsertKey(parent_state, c) == c.resulting_state

\* StateMap::get_raw_or_insert_with
GetOrInsertOverwrite(map, k, v) == [x \in DOMAIN map \cup {k} |-> IF x = k THEN v ELSE map[x]]
GetOrInsertWith(map, k, v) == IF k \in DOMAIN map THEN map ELSE map @@ (k :> v)

\* expand(): one iteration of the loop that links the children
CreateNode(w) ==
    /\ wk[w].pc = "create"
    /\ wk[w].pending # <<>>
    /\ LET c   == Head(wk[w].pending)
           d1  == wk[w].depth + 1
           gs  == wk[w].game_state
           k   == InsertKey(gs, c)
           map == GetOrInsertWith(states[d1], k, NewNode(c.eval, c.resulting_state))
           node == map[k]
       IN
       /\ LockFree(d1, k)
       /\ states' = [states EXCEPT ![d1] =
                        [map EXCEPT ![k].parents = Append(@, <<gs, c.mv, c.piece>>)]]
       /\ wk' = [wk EXCEPT ![w].pending = Tail(@),
                           ![w].childs[c.piece] = Append(@,
                               [mv |-> c.mv, reward |-> c.reward,
                                cached_eval |-> node.eval + c.reward])]
    /\ UNCHANGED <<speculate, root, current, queue, top, layer_piece, locks,
                   bot_panicked, cycles, promoted, revealed, refused, selected>>

RECURSIVE InsertDesc(_, _)
InsertDesc(sorted, c) ==
    IF sorted = <<>> THEN <<c>>
    ELSE IF Head(sorted).cached_eval >= c.cached_eval
         THEN <<Head(sorted)>> \o InsertDesc(Tail(sorted), c)
         ELSE <<c>> \o sorted

\* list.sort_by(|a, b| a.cached_eval.cmp(&b.cached_eval).reverse()): stable
Unsorted(list) == list
RECURSIVE SortDesc(_)
SortDesc(list) ==
    IF list = <<>> THEN <<>>
    ELSE InsertDesc(SortDesc(SubSeq(list, 1, Len(list) - 1)), list[Len(list)])

\* list.first().map(|c| c.cached_eval)
First(list) == IF list = <<>> THEN <<>> ELSE <<list[1].cached_eval>>

\* expand(): parent.eval
ExpandEval(childs, piece, bag) ==
    LET ps == PiecesIn(NextPossibilities(piece, bag))
    IN  Average([i \in 1 .. Len(ps) |-> First(childs[ps[i]])])

\* an eval change that is not passed on
UpdatesForNone(node, child) == <<>>

\* updates addressed to the node itself instead of its parents
UpdatesForSelf(node, child) ==
    [i \in 1 .. Len(node.parents) |->
        [parent |-> child, mv |-> node.parents[i][2],
         piece |-> node.parents[i][3], child |-> child]]

\* the updates an eval change of `child` sends to its parents
UpdatesFor(node, child) ==
    [i \in 1 .. Len(node.parents) |->
        [parent |-> node.parents[i][1], mv |-> node.parents[i][2],
         piece |-> node.parents[i][3], child |-> child]]

\* backprop(): the loop head: the path is exhausted, or nothing is left to update
StartLayer(w, ups) ==
    IF ups = <<>> \/ wk[w].depth = top
    THEN Idle
    ELSE [wk[w] EXCEPT !.pc = "bp", !.depth = @ - 1, !.updates = ups, !.next_up = <<>>,
                       !.pending = <<>>, !.childs = <<>>, !.index = 0]

\* expand(): sort, evaluate, install the children, collect the updates; then backprop()
ExpandFinish(w) ==
    /\ wk[w].pc = "create"
    /\ wk[w].pending = <<>>
    /\ LET d      == wk[w].depth
           gs     == wk[w].game_state
           parent == states[d][gs]
           childs == [p \in Pieces |-> SortDesc(wk[w].childs[p])]
           node   == [parent EXCEPT !.eval = ExpandEval(childs, layer_piece[d], parent.bag),
                                    !.children = <<childs>>]
       IN
       /\ states' = [states EXCEPT ![d][gs] = node]
       /\ locks' = Release(d, gs)
       /\ wk' = [wk EXCEPT ![w] = StartLayer(w, UpdatesFor(node, gs))]
    /\ UNCHANGED <<speculate, root, current, queue, top, layer_piece, bot_panicked, cycles,
                   promoted, revealed, refused, selected>>

\* backprop(): let mut parent = layer.states.get_raw_mut(parent_index).unwrap()
BackpropLock(w) ==
    /\ wk[w].pc = "bp"
    /\ LET u == Head(wk[w].updates)
           d == wk[w].depth
       IN
       /\ LockFree(d, u.parent)
       /\ IF u.parent \in DOMAIN states[d]
          THEN /\ locks' = Acquire(d, u.parent, w)
               /\ wk' = [wk EXCEPT ![w].pc = "bp_read"]
          ELSE /\ wk' = [wk EXCEPT ![w].pc = "panic"]
               /\ UNCHANGED locks
    /\ UNCHANGED <<speculate, root, current, queue, top, layer_piece, states,
                   bot_panicked, cycles, promoted, revealed, refused, selected>>

\* position of the entry with placement mv, 0 when there is none
IndexOf(list, mv) ==
    IF \E i \in 1 .. Len(list) : list[i].mv = mv
    THEN CHOOSE i \in 1 .. Len(list) :
            list[i].mv = mv /\ \A j \in 1 .. (i - 1) : list[j].mv # mv
    ELSE 0

\* backprop(): read the child's eval, find the entry, store its new cached_eval
BackpropRead(w) ==
    /\ wk[w].pc = "bp_read"
    /\ LET u == Head(wk[w].updates)
           d == wk[w].depth
       IN
       /\ LockFree(d + 1, u.child)
       /\ IF /\ u.child \in DOMAIN states[d + 1]
             /\ states[d][u.parent].children # <<>>
             /\ IndexOf(states[d][u.parent].children[1][u.piece], u.mv) # 0
          THEN LET list == states[d][u.parent].children[1][u.piece]
                   i    == IndexOf(list, u.mv)
                   ce   == states[d + 1][u.child].eval + list[i].reward
               IN
               /\ states' = [states EXCEPT ![d][u.parent].children[1][u.piece][i].cached_eval = ce]
               /\ wk' = [wk EXCEPT ![w].pc = "bp_shift", ![w].index = i]
          ELSE /\ wk' = [wk EXCEPT ![w].pc = "panic"]
               /\ UNCHANGED states
    /\ UNCHANGED <<speculate, root, current, queue, top, layer_piece, locks,
                   bot_panicked, cycles, promoted, revealed, refused, selected>>

RECURSIVE ShiftUp(_, _, _)
ShiftUp(list, i, hole) ==
    IF i > 1 /\ list[i - 1].cached_eval < hole.cached_eval
    THEN ShiftUp([list EXCEPT ![i] = list[i - 1]], i - 1, hole)
    ELSE [list |-> [list EXCEPT ![i] = hole], index |-> i]

RECURSIVE ShiftDown(_, _, _)
ShiftDown(list, i, hole) ==
    IF i < Len(list) /\ list[i + 1].cached_eval > hole.cached_eval
    THEN ShiftDown([list EXCEPT ![i] = list[i + 1]], i + 1, hole)
    ELSE [list |-> [list EXCEPT ![i] = hole], index |-> i]

\* backprop(): move the updated entry until the list is in order again
ReorderNot(list, i) == [list |-> list, index |-> i]
Reorder(list, i) ==
    IF i > 1 /\ list[i - 1].cached_eval < list[i].cached_eval
    THEN ShiftUp(list, i, list[i])
    ELSE IF i < Len(list) /\ list[i + 1].cached_eval > list[i].cached_eval
         THEN ShiftDown(list, i, list[i])
         ELSE [list |-> list, index |-> i]

\* backprop(): the eval recomputed when the updated entry ends up first
BackpropEval(children, piece, bag, reserve) ==
    LET ps == PiecesIn(NextPossibilities(piece, bag))
    IN  Average([i \in 1 .. Len(ps) |-> OptMax(First(children[ps[i]]), First(children[reserve]))])

\* backprop(): reorder, recompute, queue the parents' updates, drop the lock
BackpropShift(w) ==
    /\ wk[w].pc = "bp_shift"
    /\ LET u      == Head(wk[w].updates)
           d      == wk[w].depth
           parent == states[d][u.parent]
           r      == Reorder(parent.children[1][u.piece], wk[w].index)
           kids   == [parent.children[1] EXCEPT ![u.piece] = r.list]
           eval   == BackpropEval(kids, layer_piece[d], parent.bag, parent.reserve)
           change == r.index = 1 /\ parent.eval # eval
           node   == [parent EXCEPT !.children = <<kids>>,
                                    !.eval = IF change THEN eval ELSE @]
           up     == IF change THEN wk[w].next_up \o UpdatesFor(node, u.parent)
                     ELSE wk[w].next_up
           rest   == Tail(wk[w].updates)
       IN
       /\ states' = [states EXCEPT ![d][u.parent] = node]
       /\ locks' = Release(d, u.parent)
       /\ wk' = [wk EXCEPT ![w] =
                    IF rest # <<>>
                    THEN [wk[w] EXCEPT !.pc = "bp", !.updates = rest, !.next_up = up, !.index = 0]
                    ELSE StartLayer(w, up)]
    /\ UNCHANGED <<speculate, root, current, queue, top, layer_piece, bot_panicked, cycles,
                   promoted, revealed, refused, selected>>

---------------------------------------------------------------------------
\* bot.rs: the coordinator's operations, run while no do_work is in flight

\* the placements the frontend may play for the next piece
Playable(s, next) == {ChildrenFor(s, next)[i].mv : i \in 1 .. Len(ChildrenFor(s, next))}

\* Dag::advance: the top layer is dropped and its successor promoted
Retire(sts, t) == [sts EXCEPT ![t] = <<>>]

\* VecDeque::pop_front and Layer.piece, as Option values
PopFront(q) == IF q = <<>> THEN <<>> ELSE <<Head(q)>>
PieceOf(p) == IF p = NoPiece THEN <<>> ELSE <<p>>

\* Option::unwrap / Option::expect: the value, or nothing when the call panics
ExpectDefault(opt) == IF opt = <<>> THEN <<PieceSeq[1]>> ELSE opt
Expect(opt) == opt

\* Bot::advance and Dag::advance
DagAdvance(mv) ==
    /\ ~bot_panicked
    /\ AllIdle
    /\ LET nq == Expect(PopFront(queue))
           np == Expect(PieceOf(layer_piece[top]))
       IN
       /\ nq # <<>>
       /\ np # <<>>
       /\ mv \in Playable(root, np[1])
       /\ current' = GsAdvance(current, nq[1], mv)
       /\ queue' = IF queue = <<>> THEN queue ELSE Tail(queue)
       /\ LET r == GsAdvance(root, np[1], mv)
              sts == Retire(states, top)
          IN
          /\ root' = r
          /\ states' = [sts EXCEPT ![top + 1] = GetOrInsertWith(@, r, NewNode(DefaultEval, r))]
          /\ promoted' = IF r \notin DOMAIN states[top + 1] THEN "fresh"
                         ELSE IF states[top + 1][r].children = <<>> THEN "kept"
                         ELSE "explored"
    /\ top' = top + 1
    /\ selected' = [k \in {x \in DOMAIN selected : x[1] # top} |-> selected[k]]
    /\ refused' = {x \in refused : x[1] # top}
    /\ revealed' = revealed \ {top}
    /\ UNCHANGED <<speculate, layer_piece, locks, wk, bot_panicked, cycles>>

\* queue.pop_front().unwrap() / top_layer.piece.expect(..) with nothing queued
DagAdvancePanics ==
    /\ ~bot_panicked
    /\ AllIdle
    /\ Expect(PopFront(queue)) = <<>> \/ Expect(PieceOf(layer_piece[top])) = <<>>
    /\ bot_panicked' = TRUE
    /\ UNCHANGED <<speculate, root, current, queue, top, layer_piece, states, locks, wk,
                   cycles, promoted, revealed, refused, selected>>

\* Dag::suggest: candidates.extend(children[piece].first()) for each piece of ps
FirstsAll(children, ps) == Flatten([i \in 1 .. Len(ps) |-> children[ps[i]]])
Firsts(children, ps) ==
    Flatten([i \in 1 .. Len(ps) |->
                IF children[ps[i]] = <<>> THEN <<>> ELSE <<children[ps[i]][1]>>])

\* Dag::suggest: the placements returned for the current DAG
Suggest ==
    LET node == states[top][root]
    IN  IF node.children = <<>> THEN <<>>
        ELSE LET ps == PiecesIn(NextPossibilities(layer_piece[top], root.bag))
                 candidates == SortDesc(Firsts(node.children[1], ps))
             IN  [i \in 1 .. Len(candidates) |-> candidates[i].mv]

\* Dag::add_piece: the loop that walks from a layer to the first one without a piece
RECURSIVE FirstUnset(_, _)
FirstUnset(lp, d) ==
    IF d \notin DOMAIN lp THEN d
    ELSE IF lp[d] = NoPiece THEN d ELSE FirstUnset(lp, d + 1)

\* Dag::add_piece: layer.piece = Some(piece) on that layer
AddPieceTop(lp, t, p) == [lp EXCEPT ![t] = p]
AddPiece(lp, t, p) == [lp EXCEPT ![FirstUnset(lp, t)] = p]

\* Bot::new_piece and Dag::add_piece
DagNewPiece(p) ==
    /\ ~bot_panicked
    /\ AllIdle
    /\ FirstUnset(layer_piece, top) \in Layers
    /\ layer_piece' = AddPiece(layer_piece, top, p)
    /\ revealed' = LET d == FirstUnset(layer_piece, top)
                   IN  IF \E s \in DOMAIN states[d] : states[d][s].children # <<>>
                       THEN revealed \cup {d} ELSE revealed
    /\ queue' = Append(queue, p)
    /\ UNCHANGED <<speculate, root, current, top, states, locks, wk, bot_panicked, cycles,
                   promoted, refused, selected>>

(***************************************************************************)
(* Part III: the game state transition                                     *)
(*                                                                         *)
(* GameState::advance on a board of two columns and five rows.  A column   *)
(* is the set of its filled rows (the set bits of the u64).  Placements    *)
(* are the locations at which a piece fits and rests on something, with    *)
(* any spin; the piece is the next one or the reserve, as in do_work.      *)
(***************************************************************************)

Columns == 0 .. 1
Rows == 0 .. 4

\* the board of the program: [u64; 10] columns, of which Board::occupied uses rows 0..40
Xs == 0 .. 9
Ys == 0 .. 39

\* enum Piece
AllPieces == {"I", "O", "T", "L", "J", "S", "Z"}

\* the rows of a board: a board over Columns is the small one
RowsOf(board) == IF DOMAIN board = Columns THEN Rows ELSE Ys
Rotations == {"North", "West", "South", "East"}
Spins == {"None", "Mini", "Full"}

\* the combo values a game may be started with
InitCombos == {0, 255}

\* placements explored in one game
MaxPlacements == 3

VARIABLES
    game,        \* the GameState
    info,        \* the PlacementInfo returned by the last advance
    prev,        \* history: the GameState before the last advance
    last_next,   \* history: the next piece of the last advance
    last_mv,     \* history: the placement of the last advance
    placements,  \* number of advances so far
    tetrises     \* history: four-line clears since the last smaller clear

gvars == <<game, info, prev, last_next, last_mv, placements, tetrises>>

\* Piece::cells
PieceCells(piece) ==
    CASE piece = "I" -> {<<-1, 0>>, <<0, 0>>, <<1, 0>>, <<2, 0>>}
      [] piece = "O" -> {<<0, 0>>, <<1, 0>>, <<0, 1>>, <<1, 1>>}
      [] piece = "T" -> {<<-1, 0>>, <<0, 0>>, <<1, 0>>, <<0, 1>>}
      [] piece = "L" -> {<<-1, 0>>, <<0, 0>>, <<1, 0>>, <<1, 1>>}
      [] piece = "J" -> {<<-1, 0>>, <<0, 0>>, <<1, 0>>, <<-1, 1>>}
      [] piece = "S" -> {<<-1, 0>>, <<0, 0>>, <<0, 1>>, <<1, 1>>}
      [] piece = "Z" -> {<<-1, 1>>, <<0, 1>>, <<0, 0>>, <<1, 0>>}

\* Rotation::rotate_cell
RotateCell(rotation, c) ==
    CASE rotation = "North" -> c
      [] rotation = "East"  -> <<c[2], 0 - c[1]>>
      [] rotation = "South" -> <<0 - c[1], 0 - c[2]>>
      [] rotation = "West"  -> <<0 - c[2], c[1]>>

\* PieceLocation::cells
Cells(loc) ==
    {<<RotateCell(loc.rotation, c)[1] + loc.x, RotateCell(loc.rotation, c)[2] + loc.y>> :
        c \in PieceCells(loc.piece)}

\* Board::occupied
Occupied(board, c) ==
    IF c[1] \notin DOMAIN board \/ c[2] \notin RowsOf(board) THEN TRUE
    ELSE c[2] \in board[c[1]]

\* Board::place
Place(board, loc) ==
    [x \in DOMAIN board |-> board[x] \cup {c[2] : c \in {cc \in Cells(loc) : cc[1] = x}}]

\* Board::line_clears: the rows filled in every column
LineClears(board) ==
    {y \in UNION {board[x] : x \in DOMAIN board} : \A x \in DOMAIN board : y \in board[x]}

\* clear_lines: the column with the bits of `lines` squeezed out
ClearLines(col, lines) == {y - Cardinality({l \in lines : l < y}) : y \in col \ lines}

\* Board::remove_lines
RemoveLines(board, lines) == [x \in DOMAIN board |-> ClearLines(board[x], lines)]

\* find_moves: the locations where the piece fits and rests on the floor or the stack
RestingLocations(board, piece) ==
    {loc \in [piece : {piece}, rotation : Rotations, x : Columns, y : Rows] :
        /\ \A c \in Cells(loc) : ~Occupied(board, c)
        /\ \E c \in Cells(loc) : Occupied(board, <<c[1], c[2] - 1>>)}

\* Freestyle::do_work: the moves of the next piece chained with those of the reserve
Placements(s, next) ==
    LET locs == RestingLocations(s.board, next) \cup
                (IF next = s.reserve THEN {} ELSE RestingLocations(s.board, s.reserve))
    IN  [location : locs, spin : Spins]

\* GameState::advance: hard = four lines or a spin
HardTetrisOnly(cleared, spin) == Cardinality(cleared) = 4
Hard(cleared, spin) == Cardinality(cleared) = 4 \/ spin # "None"

\* GameState::advance: the new state and the PlacementInfo
Advance(s, next, placement) ==
    LET placed  == Place(s.board, placement.location)
        cleared == LineClears(placed)
        hard    == Hard(cleared, placement.spin)
        state   == [board        |-> IF cleared # {} THEN RemoveLines(placed, cleared)
                                     ELSE placed,
                    bag          |-> Refill(s.bag \ {next}),
                    reserve      |-> ReserveAfter(s.reserve, next, placement.location.piece),
                    back_to_back |-> IF cleared # {} THEN hard ELSE s.back_to_back,
                    combo        |-> IF cleared # {} THEN s.combo ELSE 0]
    IN  [state |-> state,
         info  |-> [placement     |-> placement,
                    lines_cleared |-> Cardinality(cleared),
                    combo         |-> state.combo,
                    back_to_back  |-> cleared # {} /\ hard /\ s.back_to_back,
                    perfect_clear |-> \A x \in DOMAIN state.board : state.board[x] = {}]]

\* the boards a game may be started with: empty, or a well of four rows on the right
InitBoards == {[x \in Columns |-> {}], [x \in Columns |-> IF x = 0 THEN 0 .. 3 ELSE {}]}

NoInfo == [lines_cleared |-> 0, combo |-> 0, back_to_back |-> FALSE, perfect_clear |-> FALSE]

GInit ==
    /\ game \in [board : InitBoards, bag : {Pieces, {"O"}, {"I"}}, reserve : {"I", "T"},
                 back_to_back : BOOLEAN, combo : InitCombos]
    /\ info = NoInfo
    /\ prev = game
    /\ last_next = NoPiece
    /\ last_mv = <<>>
    /\ placements = 0
    /\ tetrises = 0

\* one call of GameState::advance
Play(next, placement) ==
    /\ placements < MaxPlacements
    /\ next \in game.bag
    /\ placement \in Placements(game, next)
    /\ LET r == Advance(game, next, placement)
       IN  /\ game' = r.state
           /\ info' = r.info
           /\ tetrises' = IF r.info.lines_cleared = 4 THEN tetrises + 1
                          ELSE IF r.info.lines_cleared > 0 THEN 0 ELSE tetrises
    /\ prev' = game
    /\ last_next' = next
    /\ last_mv' = placement
    /\ placements' = placements + 1

(***************************************************************************)
(* Part IV: the move generator                                             *)
(*                                                                         *)
(* find_moves on the program's board of ten columns.  Each call of the     *)
(* seed loop body and each iteration of the exploration loop is a step;    *)
(* the binary heap, the two hash maps and the vector of locks are the      *)
(* state.  The release build is modelled; where a debug_assert of the      *)
(* debug build fails, the run may also panic.                              *)
(***************************************************************************)

\* find_moves: the spawn position, the fast-mode limit and the "not reached" value
SpawnX == 4
SpawnY == 19
FastHeight == 16
Unreached == 40

NoSpin == "None"

SetMax(S) == CHOOSE m \in S : \A n \in S : n <= m
SetMin(S) == CHOOSE m \in S : \A n \in S : m <= n

\* Rotation::cw
Cw(r) ==
    CASE r = "North" -> "East"
      [] r = "East"  -> "South"
      [] r = "South" -> "West"
      [] r = "West"  -> "North"

\* Rotation::ccw
Ccw(r) ==
    CASE r = "North" -> "West"
      [] r = "East"  -> "North"
      [] r = "South" -> "East"
      [] r = "West"  -> "South"

\* PieceLocation::canonical_form
CanonicalKeep(loc) == loc
CanonicalForm(loc) ==
    CASE loc.piece \in {"T", "J", "L"} -> loc
      [] loc.piece = "O" ->
            (CASE loc.rotation = "North" -> loc
               [] loc.rotation = "East"  -> [loc EXCEPT !.rotation = "North", !.y = @ - 1]
               [] loc.rotation = "South" ->
                     [loc EXCEPT !.rotation = "North", !.x = @ - 1, !.y = @ - 1]
               [] loc.rotation = "West"  -> [loc EXCEPT !.rotation = "North", !.x = @ - 1])
      [] loc.piece \in {"S", "Z"} ->
            (CASE loc.rotation \in {"North", "East"} -> loc
               [] loc.rotation = "South" -> [loc EXCEPT !.rotation = "North", !.y = @ - 1]
               [] loc.rotation = "West"  -> [loc EXCEPT !.rotation = "East", !.x = @ - 1])
      [] loc.piece = "I" ->
            (CASE loc.rotation \in {"North", "East"} -> loc
               [] loc.rotation = "South" -> [loc EXCEPT !.rotation = "North", !.x = @ - 1]
               [] loc.rotation = "West"  -> [loc EXCEPT !.rotation = "East", !.y = @ + 1])

\* the number of rows up to the highest filled one: 64 - col.leading_zeros()
Height(col) == IF col = {} THEN 0 ELSE SetMax(col) + 1

\* find_moves: board.cols.iter().all(|&c| c.leading_zeros() > 64 - 16)
FastMode(board) == \A x \in DOMAIN board : 64 - Height(board[x]) > 64 - FastHeight

\* CollisionMaps::new: bit y of boards[rot][x] is the OR, over the cells (dx, dy) of the
\* rotated piece, of bit y + dy of column x + dx; a missing column and the rows below
\* 0 read as filled, the rows from 40 up read as empty
CmOccupied(board, c) == c[1] \notin DOMAIN board \/ c[2] < 0 \/ c[2] \in board[c[1]]

\* CollisionMaps::obstructed
Obstructed(board, loc) ==
    \/ loc.y < 0
    \/ loc.x \notin DOMAIN board
    \/ \E c \in Cells(loc) : CmOccupied(board, c)

\* Board::distance_to_ground: the empty rows directly below row y of column x
DistanceToGround(board, x, y) ==
    IF y = 0 THEN 0 ELSE y - Height({r \in board[x] : r < y})

\* PieceLocation::drop_distance
DropDistance(board, loc) ==
    SetMin({DistanceToGround(board, c[1], c[2]) : c \in Cells(loc)})

\* PieceLocation::above_stack
AboveStack(board, loc) == \A c \in Cells(loc) : c[2] >= Height(board[c[1]])

\* offsets
Offsets(piece, rotation) ==
    CASE piece = "O" ->
            (CASE rotation = "North" -> [i \in 1 .. 5 |-> <<0, 0>>]
               [] rotation = "East"  -> [i \in 1 .. 5 |-> <<0, -1>>]
               [] rotation = "South" -> [i \in 1 .. 5 |-> <<-1, -1>>]
               [] rotation = "West"  -> [i \in 1 .. 5 |-> <<-1, 0>>])
      [] piece = "I" ->
            (CASE rotation = "North" -> <<<<0, 0>>, <<-1, 0>>, <<2, 0>>, <<-1, 0>>, <<2, 0>>>>
               [] rotation = "East"  -> <<<<-1, 0>>, <<0, 0>>, <<0, 0>>, <<0, 1>>, <<0, -2>>>>
               [] rotation = "South" -> <<<<-1, 1>>, <<1, 1>>, <<-2, 1>>, <<1, 0>>, <<-2, 0>>>>
               [] rotation = "West"  -> <<<<0, 1>>, <<0, 1>>, <<0, 1>>, <<0, -1>>, <<0, 2>>>>)
      [] OTHER ->
            (CASE rotation = "North" -> [i \in 1 .. 5 |-> <<0, 0>>]
               [] rotation = "East"  -> <<<<0, 0>>, <<1, 0>>, <<1, -1>>, <<0, 2>>, <<1, 2>>>>
               [] rotation = "South" -> [i \in 1 .. 5 |-> <<0, 0>>]
               [] rotation = "West"  -> <<<<0, 0>>, <<-1, 0>>, <<-1, -1>>, <<0, 2>>, <<-1, 2>>>>)

\* kicks
Kicks(piece, from, to) ==
    [i \in 1 .. 5 |-> <<Offsets(piece, from)[i][1] - Offsets(piece, to)[i][1],
                        Offsets(piece, from)[i][2] - Offsets(piece, to)[i][2]>>]

\* rotate: the target of the i-th kick
KickTarget(unkicked, kick) == [unkicked EXCEPT !.x = @ + kick[1], !.y = @ + kick[2]]

\* rotate: the loop returns at the first kick whose target is not obstructed
FirstFree(free) == IF free = {} THEN 0 ELSE SetMin(free)

\* rotate: the corners of the T that Board::occupied reports
CornersOf(board, target, corners) ==
    Cardinality({c \in corners : Occupied(board, <<c[1] + target.x, c[2] + target.y>>)})

\* rotate: the spin of an accepted target; i is the number of the accepted kick
SpinNoFifth(board, target, i) ==
    IF target.piece # "T" THEN NoSpin
    ELSE IF CornersOf(board, target, {<<-1, -1>>, <<1, -1>>, <<-1, 1>>, <<1, 1>>}) < 3
         THEN NoSpin
    ELSE IF CornersOf(board, target, {RotateCell(target.rotation, c) :
                                        c \in {<<-1, 1>>, <<1, 1>>}}) = 2
         THEN "Full"
    ELSE "Mini"
SpinOf(board, target, i) ==
    IF target.piece # "T" THEN NoSpin
    ELSE IF CornersOf(board, target, {<<-1, -1>>, <<1, -1>>, <<-1, 1>>, <<1, 1>>}) < 3
         THEN NoSpin
    ELSE IF CornersOf(board, target, {RotateCell(target.rotation, c) :
                                        c \in {<<-1, 1>>, <<1, 1>>}}) = 2 \/ i = 5
         THEN "Full"
    ELSE "Mini"

\* rotate; the result is an Option: <<>> or <<placement>>
Rotate(board, unkicked, kicks) ==
    LET free == {i \in 1 .. 5 : ~Obstructed(board, KickTarget(unkicked, kicks[i]))}
        i    == FirstFree(free)
    IN  IF i = 0 THEN <<>>
        ELSE <<[location |-> KickTarget(unkicked, kicks[i]),
                spin     |-> SpinOf(board, KickTarget(unkicked, kicks[i]), i)]>>

\* rotate_cw
RotateCw(board, from) ==
    IF from.piece = "O" THEN <<>>
    ELSE Rotate(board, [from EXCEPT !.rotation = Cw(@)],
                Kicks(from.piece, from.rotation, Cw(from.rotation)))

\* rotate_ccw
RotateCcw(board, from) ==
    IF from.piece = "O" THEN <<>>
    ELSE Rotate(board, [from EXCEPT !.rotation = Ccw(@)],
                Kicks(from.piece, from.rotation, Ccw(from.rotation)))

\* shift
Shift(board, location, dx) ==
    IF Obstructed(board, [location EXCEPT !.x = @ + dx]) THEN <<>>
    ELSE <<[location |-> [location EXCEPT !.x = @ + dx], spin |-> NoSpin]>>

\* a map with the entry k -> v
Put(map, k, v) == [x \in DOMAIN map \cup {k} |-> IF x = k THEN v ELSE map[x]]

\* Ord for Intermediate: candidates compare by soft_drops alone
Le(a, b) == a.soft_drops <= b.soft_drops

\* BinaryHeap (a max-heap on Ord): sift_up; positions count from 0 as in the vector
RECURSIVE SiftUp(_, _, _)
SiftUp(heapdata, elt, pos) ==
    IF pos > 0 /\ ~Le(elt, heapdata[((pos - 1) \div 2) + 1])
    THEN SiftUp([heapdata EXCEPT ![pos + 1] = heapdata[((pos - 1) \div 2) + 1]],
                elt, (pos - 1) \div 2)
    ELSE [heapdata EXCEPT ![pos + 1] = elt]

\* BinaryHeap: sift_down_to_bottom, then sift_up from the bottom
RECURSIVE SiftDownToBottom(_, _, _)
SiftDownToBottom(heapdata, elt, pos) ==
    LET end   == Len(heapdata)
        child == 2 * pos + 1
    IN  IF end >= 2 /\ child <= end - 2
        THEN LET c == IF Le(heapdata[child + 1], heapdata[child + 2]) THEN child + 1
                      ELSE child
             IN  SiftDownToBottom([heapdata EXCEPT ![pos + 1] = heapdata[c + 1]], elt, c)
        ELSE IF child = end - 1
        THEN SiftUp([heapdata EXCEPT ![pos + 1] = heapdata[child + 1]], elt, child)
        ELSE SiftUp(heapdata, elt, pos)

\* BinaryHeap::push
Push(heapdata, elt) == SiftUp(Append(heapdata, elt), elt, Len(heapdata))

\* BinaryHeap::pop on a heap that is not empty: <<the item, the heap left>>
Pop(heapdata) ==
    LET last == heapdata[Len(heapdata)]
        rest == SubSeq(heapdata, 1, Len(heapdata) - 1)
    IN  IF rest = <<>> THEN <<last, rest>>
        ELSE <<rest[1], SiftDownToBottom(rest, last, 0)>>

VARIABLES
    mg_board,           \* the board given to find_moves
    mg_piece,           \* the piece given to find_moves
    fast_mode,          \* fast_mode
    reference,          \* TRUE in the second run, made without the fast mode
    heap,               \* queue: the BinaryHeap as its vector
    values,             \* values
    underground_locks,  \* underground_locks
    seed_locks,         \* locks
    seed,               \* the number of bodies of the seed loop done
    expand,             \* the candidate popped last
    mpc,                \* position in find_moves
    result,             \* the vector returned
    fast_result,        \* history: the vector returned by the fast-mode run
    rotations,          \* history: the rotations tried in the last step
    origin,             \* history: how each target of update_position was produced
    locked              \* the outcome of GameState::advance with a returned placement

mvars == <<mg_board, mg_piece, fast_mode, reference, heap, values, underground_locks,
           seed_locks, seed, expand, mpc, result, fast_result, rotations, origin, locked>>

EmptyMap == <<>>

\* values.get(&mv).copied().unwrap_or(40)
ValueOf(map, mv) == IF mv \in DOMAIN map THEN map[mv] ELSE Unreached

\* update_position that also enqueues a target whose value does not improve
UpdatePositionLe(st, fast, board, target, soft_drops, how) ==
    IF fast /\ AboveStack(board, target.location) THEN st
    ELSE LET prev_sds == ValueOf(st.values, target)
             seen     == IF target \in DOMAIN st.origin THEN st.origin[target] ELSE {}
         IN  IF soft_drops <= prev_sds
             THEN [queue  |-> Push(st.queue, [mv |-> target, soft_drops |-> soft_drops]),
                   values |-> Put(st.values, target, soft_drops),
                   origin |-> Put(st.origin, target, seen \cup {how})]
             ELSE [queue  |-> st.queue,
                   values |-> Put(st.values, target, prev_sds),
                   origin |-> Put(st.origin, target, seen \cup {how})]

\* update_position on st = [queue, values, origin]; how records the move that
\* produced the target
UpdatePosition(st, fast, board, target, soft_drops, how) ==
    IF fast /\ AboveStack(board, target.location) THEN st
    ELSE LET prev_sds == ValueOf(st.values, target)
             seen     == IF target \in DOMAIN st.origin THEN st.origin[target] ELSE {}
         IN  IF soft_drops < prev_sds
             THEN [queue  |-> Push(st.queue, [mv |-> target, soft_drops |-> soft_drops]),
                   values |-> Put(st.values, target, soft_drops),
                   origin |-> Put(st.origin, target, seen \cup {how})]
             ELSE [queue  |-> st.queue,
                   values |-> Put(st.values, target, prev_sds),
                   origin |-> Put(st.origin, target, seen \cup {how})]

\* find_moves: the four moves tried from a location, in the order of the code
Moves(board, location) ==
    <<[mv |-> Shift(board, location, -1), how |-> "shift"],
      [mv |-> Shift(board, location, 1), how |-> "shift"],
      [mv |-> RotateCw(board, location), how |-> "rotate"],
      [mv |-> RotateCcw(board, location), how |-> "rotate"]>>

\* find_moves: if let Some(mv) = .. { update_position(mv, soft_drops) }, for each move
RECURSIVE UpdateAll(_, _, _, _, _)
UpdateAll(st, fast, board, moves, soft_drops) ==
    IF moves = <<>> THEN st
    ELSE UpdateAll(IF Head(moves).mv = <<>> THEN st
                   ELSE UpdatePosition(st, fast, board, Head(moves).mv[1], soft_drops,
                                       Head(moves).how),
                   fast, board, Tail(moves), soft_drops)

\* history: the two rotations tried from a location
RotationsFrom(board, location) ==
    {[from |-> location, to |-> Cw(location.rotation), got |-> RotateCw(board, location)],
     [from |-> location, to |-> Ccw(location.rotation), got |-> RotateCcw(board, location)]}

\* find_moves: the order of the seed loop
SeedRotations == <<"North", "East", "South", "West">>
SeedCount == Len(SeedRotations) * Cardinality(Xs)

\* find_moves: the seed location of the n-th body of the loop, n from 0
SeedLocation(piece, n) ==
    [piece |-> piece, rotation |-> SeedRotations[(n \div Cardinality(Xs)) + 1],
     x |-> n % Cardinality(Xs), y |-> SpawnY]

\* find_moves: if location.canonical_form() == location
IsCanonicalAlways(loc) == TRUE
IsCanonical(loc) == CanonicalForm(loc) = loc

\* find_moves: one body of the fast-mode seed loop
Seed ==
    /\ mpc = "seed"
    /\ LET location0 == SeedLocation(mg_piece, seed)
       IN  IF Obstructed(mg_board, location0)
           THEN /\ rotations' = {}
                /\ UNCHANGED <<heap, values, origin, seed_locks>>
           ELSE LET distance == DropDistance(mg_board, location0)
                    location == [location0 EXCEPT !.y = @ - distance]
                    st == UpdateAll([queue |-> heap, values |-> values, origin |-> origin],
                                    fast_mode, mg_board, Moves(mg_board, location), distance)
                IN  /\ heap' = st.queue
                    /\ values' = st.values
                    /\ origin' = st.origin
                    /\ rotations' = RotationsFrom(mg_board, location)
                    /\ seed_locks' =
                          IF IsCanonical(location)
                          THEN Append(seed_locks, <<[location |-> location, spin |-> NoSpin], 0>>)
                          ELSE seed_locks
    /\ seed' = seed + 1
    /\ mpc' = IF seed + 1 = SeedCount THEN "loop" ELSE "seed"
    /\ UNCHANGED <<mg_board, mg_piece, fast_mode, reference, underground_locks, expand,
                   result, fast_result, locked>>

\* find_moves: the spawn of the full exploration
SpawnAt(piece, y) == [piece |-> piece, rotation |-> "North", x |-> SpawnX, y |-> y]

Spawn ==
    /\ mpc = "spawn"
    /\ IF /\ Obstructed(mg_board, SpawnAt(mg_piece, SpawnY))
          /\ Obstructed(mg_board, SpawnAt(mg_piece, SpawnY + 1))
       THEN /\ result' = <<>>
            /\ mpc' = "done"
            /\ UNCHANGED <<heap, values, origin>>
       ELSE LET spawned == [location |-> IF Obstructed(mg_board, SpawnAt(mg_piece, SpawnY))
                                         THEN SpawnAt(mg_piece, SpawnY + 1)
                                         ELSE SpawnAt(mg_piece, SpawnY),
                            spin |-> NoSpin]
            IN  /\ heap' = Push(heap, [mv |-> spawned, soft_drops |-> 0])
                /\ values' = Put(values, spawned, 0)
                /\ origin' = Put(origin, spawned, {"spawn"})
                /\ mpc' = "loop"
                /\ UNCHANGED result
    /\ rotations' = {}
    /\ UNCHANGED <<mg_board, mg_piece, fast_mode, reference, underground_locks, seed_locks,
                   seed, expand, fast_result, locked>>

\* find_moves: while let Some(expand) = queue.pop()
PopCandidate ==
    /\ mpc = "loop"
    /\ heap # <<>>
    /\ expand' = Pop(heap)[1]
    /\ heap' = Pop(heap)[2]
    /\ mpc' = "popped"
    /\ rotations' = {}
    /\ UNCHANGED <<mg_board, mg_piece, fast_mode, reference, values, underground_locks,
                   seed_locks, seed, result, fast_result, origin, locked>>

\* find_moves: if expand.soft_drops != values.get(..).unwrap_or(40)
Superseded == expand.soft_drops # ValueOf(values, expand.mv)

\* find_moves: continue
SkipCandidate ==
    /\ mpc = "popped"
    /\ Superseded
    /\ mpc' = "loop"
    /\ UNCHANGED <<mg_board, mg_piece, fast_mode, reference, heap, values, underground_locks,
                   seed_locks, seed, expand, result, fast_result, rotations, origin, locked>>

\* find_moves: the spin of the dropped placement
DroppedSpinKept(spin, drop_dist) == spin
DroppedSpin(spin, drop_dist) == IF drop_dist = 0 THEN spin ELSE NoSpin

\* find_moves: the dropped placement of a candidate
Dropped(board, mv) ==
    [location |-> [mv.location EXCEPT !.y = @ - DropDistance(board, mv.location)],
     spin     |-> DroppedSpin(mv.spin, DropDistance(board, mv.location))]

\* find_moves: the key of underground_locks
LockKey(dropped) == [location |-> CanonicalForm(dropped.location), spin |-> dropped.spin]

\* find_moves: entry(..).or_insert(soft_drops); *sds = soft_drops.min(*sds)
RecordMin(map, k, soft_drops) ==
    Put(map, k, IF k \in DOMAIN map /\ map[k] < soft_drops THEN map[k] ELSE soft_drops)

\* find_moves: the body of the exploration loop for a candidate that is not superseded
Expand ==
    /\ mpc = "popped"
    /\ ~Superseded
    /\ LET drop_dist == DropDistance(mg_board, expand.mv.location)
           dropped   == Dropped(mg_board, expand.mv)
           st0 == UpdatePosition([queue |-> heap, values |-> values, origin |-> origin],
                                 fast_mode, mg_board, dropped, expand.soft_drops + drop_dist,
                                 IF drop_dist = 0 THEN "drop0" ELSE "drop")
           st  == UpdateAll(st0, fast_mode, mg_board, Moves(mg_board, expand.mv.location),
                            expand.soft_drops)
       IN  /\ underground_locks' = RecordMin(underground_locks, LockKey(dropped),
                                             expand.soft_drops)
           /\ heap' = st.queue
           /\ values' = st.values
           /\ origin' = st.origin
    /\ rotations' = RotationsFrom(mg_board, expand.mv.location)
    /\ mpc' = "loop"
    /\ UNCHANGED <<mg_board, mg_piece, fast_mode, reference, seed_locks, seed, expand,
                   result, fast_result, locked>>

\* Board::distance_to_ground: debug_assert!((0..40).contains(&y)), in a debug build
ExpandPanics ==
    /\ mpc = "popped"
    /\ ~Superseded
    /\ \E c \in Cells(expand.mv.location) : c[2] \notin Ys
    /\ mpc' = "panic"
    /\ UNCHANGED <<mg_board, mg_piece, fast_mode, reference, heap, values, underground_locks,
                   seed_locks, seed, expand, result, fast_result, rotations, origin, locked>>

\* the entries of a map in some order: the order of a hash map's iterator is not fixed
RECURSIVE EntriesOf(_)
EntriesOf(map) ==
    IF DOMAIN map = {} THEN <<>>
    ELSE LET k == CHOOSE k \in DOMAIN map : TRUE
         IN  <<<<k, map[k]>>>> \o EntriesOf([x \in DOMAIN map \ {k} |-> map[x]])

\* find_moves: locks.extend(underground_locks.into_iter()); locks
Return ==
    /\ mpc = "loop"
    /\ heap = <<>>
    /\ result' = seed_locks \o EntriesOf(underground_locks)
    /\ mpc' = "done"
    /\ rotations' = {}
    /\ UNCHANGED <<mg_board, mg_piece, fast_mode, reference, heap, values, underground_locks,
                   seed_locks, seed, expand, fast_result, origin, locked>>

\* the same call made again with the else branch of `if fast_mode` and no pruning
Reference ==
    /\ mpc = "done"
    /\ fast_mode
    /\ fast_result' = result
    /\ reference' = TRUE
    /\ fast_mode' = FALSE
    /\ heap' = <<>>
    /\ values' = EmptyMap
    /\ underground_locks' = EmptyMap
    /\ origin' = EmptyMap
    /\ seed_locks' = <<>>
    /\ result' = <<>>
    /\ rotations' = {}
    /\ mpc' = "spawn"
    /\ UNCHANGED <<mg_board, mg_piece, seed, expand, locked>>

\* Freestyle::do_work: state.advance(next, mv) for a returned placement
LockPlacement(i) ==
    /\ mpc = "done"
    /\ ~reference
    /\ i \in 1 .. Len(result)
    /\ locked' = <<Advance([board |-> mg_board, bag |-> Pieces, reserve |-> mg_piece,
                            back_to_back |-> FALSE, combo |-> 0],
                           mg_piece, result[i][1])>>
    /\ mpc' = "locked"
    /\ UNCHANGED <<mg_board, mg_piece, fast_mode, reference, heap, values, underground_locks,
                   seed_locks, seed, expand, result, fast_result, rotations, origin>>

\* the boards given to find_moves
BoardOf(cols) == [x \in Xs |-> cols[x + 1]]

EmptyBoard == [x \in Xs |-> {}]

\* one block hanging over the floor at the right wall
OverhangBoard == [x \in Xs |-> IF x = 9 THEN {1} ELSE {}]

\* a stack of five rows with covered slots for the T piece
SpinBoard == BoardOf(<<{}, {4}, {1}, {0, 2}, {4}, {2}, {0, 2}, {1, 2}, {3, 4}, {}>>)

\* a column of sixteen rows: too high for the fast mode
TallBoard == [x \in Xs |-> IF x = 0 THEN 0 .. (FastHeight - 1) ELSE {}]

\* a block in the spawn position, and blocks in both spawn positions
SpawnBlockedBoard == [x \in Xs |-> IF x = SpawnX + 1 THEN {SpawnY} ELSE {}]
SpawnClosedBoard == [x \in Xs |-> IF x = SpawnX + 1 THEN {SpawnY, SpawnY + 2} ELSE {}]

\* a stack up to the top row whose rows repeat with period three
TowerBoard ==
    BoardOf([i \in 1 .. 10 |->
               {y \in Ys : (y % 3) \in <<{0, 2}, {0, 1, 2}, {1}, {}, {2}, {}, {0, 2}, {},
                                         {1}, {0, 1}>>[i]}])

MoveInputs ==
    [board : {EmptyBoard}, piece : {"I", "O", "T", "S"}] \cup
    {[board |-> OverhangBoard, piece |-> "I"],
     [board |-> SpinBoard, piece |-> "T"],
     [board |-> TallBoard, piece |-> "O"],
     [board |-> SpawnBlockedBoard, piece |-> "O"],
     [board |-> SpawnClosedBoard, piece |-> "O"],
     [board |-> TowerBoard, piece |-> "I"]}

NoCandidate == [mv |-> <<>>, soft_drops |-> 0]

MInit ==
    /\ \E in \in MoveInputs : mg_board = in.board /\ mg_piece = in.piece
    /\ fast_mode = FastMode(mg_board)
    /\ reference = FALSE
    /\ heap = <<>>
    /\ values = EmptyMap
    /\ underground_locks = EmptyMap
    /\ seed_locks = <<>>
    /\ seed = 0
    /\ expand = NoCandidate
    /\ mpc = IF FastMode(mg_board) THEN "seed" ELSE "spawn"
    /\ result = <<>>
    /\ fast_result = <<>>
    /\ rotations = {}
    /\ origin = EmptyMap
    /\ locked = <<>>

(***************************************************************************)
(* Part V: clear_lines on machine words                                    *)
(*                                                                         *)
(* The two builds of clear_lines on words of WordBits bits: the bmi2 build *)
(* is one bit-extract instruction, the portable build a loop; each         *)
(* iteration of the loop is a step.                                        *)
(***************************************************************************)

\* the width of a column word in the model (u64 in the program)
WordBits == 5

RECURSIVE Pow2(_)
Pow2(n) == IF n = 0 THEN 1 ELSE 2 * Pow2(n - 1)

Words == 0 .. (Pow2(WordBits) - 1)

\* the set bits of a word
BitsOf(word) == {i \in 0 .. (WordBits - 1) : (word \div Pow2(i)) % 2 = 1}

\* !word
Not(word) == Pow2(WordBits) - 1 - word

\* _pext_u64(word, mask): the bits of word at the set bits of mask, packed from bit 0
RECURSIVE Pext(_, _, _)
Pext(word, mask, width) ==
    IF width = 0 THEN 0
    ELSE IF mask % 2 = 1
         THEN (word % 2) + 2 * Pext(word \div 2, mask \div 2, width - 1)
         ELSE Pext(word \div 2, mask \div 2, width - 1)

\* lines.trailing_zeros() of a word that is not 0
TrailingZeros(word) == SetMin(BitsOf(word))

\* clear_lines, portable: *col = *col & mask | *col >> 1 & !mask, with mask = (1 << i) - 1
KeepBit(word, i) == word
RemoveBit(word, i) == (word % Pow2(i)) + ((word \div 2) \div Pow2(i)) * Pow2(i)

VARIABLES
    build,      \* which clear_lines was compiled: "bmi2" or "portable"
    col,        \* *col
    lines,      \* lines
    col_in,     \* history: the column passed in
    lines_in,   \* history: the mask passed in
    cpc         \* position in clear_lines

bvars == <<build, col, lines, col_in, lines_in, cpc>>

CInit ==
    /\ build \in {"bmi2", "portable"}
    /\ col_in \in Words
    /\ lines_in \in Words
    /\ col = col_in
    /\ lines = lines_in
    /\ cpc = "call"

\* clear_lines, bmi2: *col = _pext_u64(*col, !lines)
ClearBmi2 ==
    /\ cpc = "call"
    /\ build = "bmi2"
    /\ col' = Pext(col, Not(lines), WordBits)
    /\ cpc' = "done"
    /\ UNCHANGED <<build, lines, col_in, lines_in>>

\* clear_lines, portable: one iteration of while lines != 0
ClearLoop ==
    /\ cpc = "call"
    /\ build = "portable"
    /\ lines # 0
    /\ col' = RemoveBit(col, TrailingZeros(lines))
    /\ lines' = (lines - Pow2(TrailingZeros(lines))) \div 2
    /\ UNCHANGED <<build, col_in, lines_in, cpc>>

\* clear_lines, portable: the loop ends
ClearReturn ==
    /\ cpc = "call"
    /\ build = "portable"
    /\ lines = 0
    /\ cpc' = "done"
    /\ UNCHANGED <<build, col, lines, col_in, lines_in>>

(***************************************************************************)
(* Part VI: canonical_form on pairs of locations                           *)
(*                                                                         *)
(* canonical_form applied to two locations of one piece, and once more to  *)
(* the result of the first.                                                *)
(***************************************************************************)

\* the coordinates of the locations compared
NearXs == 0 .. 2
NearYs == 0 .. 2

VARIABLES
    loc_a,      \* a location
    loc_b,      \* a location of the same piece
    canon_a,    \* loc_a.canonical_form()
    canon_b,    \* loc_b.canonical_form()
    again_a,    \* loc_a.canonical_form().canonical_form()
    fpc         \* how many times canonical_form was applied

fvars == <<loc_a, loc_b, canon_a, canon_b, again_a, fpc>>

FInit ==
    /\ loc_a \in [piece : AllPieces, rotation : Rotations, x : NearXs, y : NearYs]
    /\ loc_b \in [piece : {loc_a.piece}, rotation : Rotations, x : NearXs, y : NearYs]
    /\ canon_a = loc_a
    /\ canon_b = loc_b
    /\ again_a = loc_a
    /\ fpc = "call"

\* canonical_form of both locations
Canonicalize ==
    /\ fpc = "call"
    /\ canon_a' = CanonicalForm(loc_a)
    /\ canon_b' = CanonicalForm(loc_b)
    /\ fpc' = "once"
    /\ UNCHANGED <<loc_a, loc_b, again_a>>

\* canonical_form of a canonical form
CanonicalizeAgain ==
    /\ fpc = "once"
    /\ again_a' = CanonicalForm(canon_a)
    /\ fpc' = "twice"
    /\ UNCHANGED <<loc_a, loc_b, canon_a, canon_b>>

---------------------------------------------------------------------------
\* Specifications

vars == <<hvars, dvars, gvars, mvars, bvars, fvars>>

\* the variables of the other parts, which a step of one part leaves alone
notHarness == <<dvars, gvars, mvars, bvars, fvars>>
notDag == <<hvars, gvars, mvars, bvars, fvars>>
notGame == <<hvars, dvars, mvars, bvars, fvars>>
notMove == <<hvars, dvars, gvars, bvars, fvars>>
notClear == <<hvars, dvars, gvars, mvars, fvars>>
notCanon == <<hvars, dvars, gvars, mvars, bvars>>

\* the DAG is left alone while the harness is studied, and the harness while the DAG is
DParked ==
    /\ speculate = FALSE
    /\ root = NoState
    /\ current = NoState
    /\ queue = <<>>
    /\ top = 0
    /\ layer_piece = <<>>
    /\ states = <<>>
    /\ locks = <<>>
    /\ wk = <<>>
    /\ bot_panicked = FALSE
    /\ cycles = 0
    /\ promoted = "none"
    /\ revealed = {}
    /\ refused = {}
    /\ selected = <<>>

GParked ==
    /\ game = <<>>
    /\ info = <<>>
    /\ prev = <<>>
    /\ last_next = NoPiece
    /\ last_mv = <<>>
    /\ placements = 0
    /\ tetrises = 0

MParked ==
    /\ mg_board = <<>>
    /\ mg_piece = NoPiece
    /\ fast_mode = FALSE
    /\ reference = FALSE
    /\ heap = <<>>
    /\ values = EmptyMap
    /\ underground_locks = EmptyMap
    /\ seed_locks = <<>>
    /\ seed = 0
    /\ expand = NoCandidate
    /\ mpc = "parked"
    /\ result = <<>>
    /\ fast_result = <<>>
    /\ rotations = {}
    /\ origin = EmptyMap
    /\ locked = <<>>

FParked ==
    /\ loc_a = <<>>
    /\ loc_b = <<>>
    /\ canon_a = <<>>
    /\ canon_b = <<>>
    /\ again_a = <<>>
    /\ fpc = "parked"

BParked ==
    /\ build = "none"
    /\ col = 0
    /\ lines = 0
    /\ col_in = 0
    /\ lines_in = 0
    /\ cpc = "parked"

HParked ==
    /\ harness = "sharing"
    /\ mutex = NoOne
    /\ writer = NoOne
    /\ writer_bit = FALSE
    /\ readers = {}
    /\ data = <<>>
    /\ pc = <<>>
    /\ cop = "idle"
    /\ cidx = 1
    /\ opsDone = 0
    /\ stats = 0
    /\ new_stats = <<>>
    /\ nodesMade = 0
    /\ workBot = <<>>
    /\ epoch = 0
    /\ cycleEpoch = <<>>
    /\ expected = 0

HarnessNext ==
    \/ \E op \in Ops : CBegin(op) /\ UNCHANGED notHarness
    \/ CLock /\ UNCHANGED notHarness
    \/ CSkip /\ UNCHANGED notHarness
    \/ CReset /\ UNCHANGED notHarness
    \/ CWReq /\ UNCHANGED notHarness
    \/ CWAcq /\ UNCHANGED notHarness
    \/ CAssign /\ UNCHANGED notHarness
    \/ CWRel /\ UNCHANGED notHarness
    \/ CNotify /\ UNCHANGED notHarness
    \/ CUnlock /\ UNCHANGED notHarness
    \/ CRAcq /\ UNCHANGED notHarness
    \/ CSuggest /\ UNCHANGED notHarness
    \/ CRRel /\ UNCHANGED notHarness
    \/ \E w \in Workers : WLock(w) /\ UNCHANGED notHarness
    \/ \E w \in Workers : WRead(w) /\ UNCHANGED notHarness
    \/ \E w \in Workers : WCheck(w) /\ UNCHANGED notHarness
    \/ \E w \in Workers : WSpurious(w) /\ UNCHANGED notHarness
    \/ \E w \in Workers : WDoWork(w) /\ UNCHANGED notHarness
    \/ \E w \in Workers : WAccumulate(w) /\ UNCHANGED notHarness

HarnessInit == HInit /\ DParked /\ GParked /\ MParked /\ BParked /\ FParked

HarnessSpec == HarnessInit /\ [][HarnessNext]_vars

DNext ==
    \/ \E w \in Workers : BeginCycle(w) /\ UNCHANGED notDag
    \/ \E w \in Workers : Select(w) /\ UNCHANGED notDag
    \/ \E w \in Workers : ExpandLock(w) /\ UNCHANGED notDag
    \/ \E w \in Workers : CreateNode(w) /\ UNCHANGED notDag
    \/ \E w \in Workers : ExpandFinish(w) /\ UNCHANGED notDag
    \/ \E w \in Workers : BackpropLock(w) /\ UNCHANGED notDag
    \/ \E w \in Workers : BackpropRead(w) /\ UNCHANGED notDag
    \/ \E w \in Workers : BackpropShift(w) /\ UNCHANGED notDag
    \/ \E mv \in [piece : Pieces, x : Cols] : DagAdvance(mv) /\ UNCHANGED notDag
    \/ DagAdvancePanics /\ UNCHANGED notDag
    \/ \E p \in NewPieces : DagNewPiece(p) /\ UNCHANGED notDag

DagInit == DInit /\ HParked /\ GParked /\ MParked /\ BParked /\ FParked

DagSpec == DagInit /\ [][DNext]_vars

\* one statement of a worker thread
WorkerStep(w) ==
    \/ BeginCycle(w) \/ Select(w) \/ ExpandLock(w) \/ CreateNode(w) \/ ExpandFinish(w)
    \/ BackpropLock(w) \/ BackpropRead(w) \/ BackpropShift(w)

DagDeepInit == DeepInit /\ HParked /\ GParked /\ MParked /\ BParked /\ FParked

\* the workers and the frontend's new_piece messages, without advance
DeepNext ==
    \/ \E w \in Workers : BeginCycle(w) /\ UNCHANGED notDag
    \/ \E w \in Workers : Select(w) /\ UNCHANGED notDag
    \/ \E w \in Workers : ExpandLock(w) /\ UNCHANGED notDag
    \/ \E w \in Workers : CreateNode(w) /\ UNCHANGED notDag
    \/ \E w \in Workers : ExpandFinish(w) /\ UNCHANGED notDag
    \/ \E w \in Workers : BackpropLock(w) /\ UNCHANGED notDag
    \/ \E w \in Workers : BackpropRead(w) /\ UNCHANGED notDag
    \/ \E w \in Workers : BackpropShift(w) /\ UNCHANGED notDag
    \/ \E p \in NewPieces : DagNewPiece(p) /\ UNCHANGED notDag

DagDeepSpec == DagDeepInit /\ [][DeepNext]_vars

DagFairInit == DagStart(MaxCycles) /\ HParked /\ GParked /\ MParked /\ BParked /\ FParked

\* the workers alone
WorkNext ==
    \/ \E w \in Workers : BeginCycle(w) /\ UNCHANGED notDag
    \/ \E w \in Workers : Select(w) /\ UNCHANGED notDag
    \/ \E w \in Workers : ExpandLock(w) /\ UNCHANGED notDag
    \/ \E w \in Workers : CreateNode(w) /\ UNCHANGED notDag
    \/ \E w \in Workers : ExpandFinish(w) /\ UNCHANGED notDag
    \/ \E w \in Workers : BackpropLock(w) /\ UNCHANGED notDag
    \/ \E w \in Workers : BackpropRead(w) /\ UNCHANGED notDag
    \/ \E w \in Workers : BackpropShift(w) /\ UNCHANGED notDag

\* a worker thread that can run is scheduled
DagFair ==
    /\ DagFairInit
    /\ [][WorkNext]_vars
    /\ \A w \in Workers : WF_vars(WorkerStep(w) /\ UNCHANGED notDag)

\* Fair scheduling: every thread that can take a step eventually does; a thread
\* contending for the mutex gets it when it is free repeatedly.
HarnessFair ==
    /\ HarnessSpec
    /\ WF_vars(CStep /\ UNCHANGED notHarness)
    /\ SF_vars(CLock /\ UNCHANGED notHarness)
    /\ \A w \in Workers :
          /\ WF_vars((WRead(w) \/ WCheck(w) \/ WDoWork(w)) /\ UNCHANGED notHarness)
          /\ SF_vars(WLock(w) /\ UNCHANGED notHarness)
          /\ SF_vars(WAccumulate(w) /\ UNCHANGED notHarness)


GameInit == GInit /\ HParked /\ DParked /\ MParked /\ BParked /\ FParked

GNext ==
    \E next \in Pieces :
        \E placement \in Placements(game, next) :
            Play(next, placement) /\ UNCHANGED notGame

GameSpec == GameInit /\ [][GNext]_vars

MoveInit == MInit /\ HParked /\ DParked /\ GParked /\ BParked /\ FParked

MNext ==
    \/ Seed /\ UNCHANGED notMove
    \/ Spawn /\ UNCHANGED notMove
    \/ PopCandidate /\ UNCHANGED notMove
    \/ SkipCandidate /\ UNCHANGED notMove
    \/ Expand /\ UNCHANGED notMove
    \/ ExpandPanics /\ UNCHANGED notMove
    \/ Return /\ UNCHANGED notMove
    \/ Reference /\ UNCHANGED notMove
    \/ \E i \in 1 .. Len(result) : LockPlacement(i) /\ UNCHANGED notMove

MoveSpec == MoveInit /\ [][MNext]_vars

ClearInit == CInit /\ HParked /\ DParked /\ GParked /\ MParked /\ FParked

BNext ==
    \/ ClearBmi2 /\ UNCHANGED notClear
    \/ ClearLoop /\ UNCHANGED notClear
    \/ ClearReturn /\ UNCHANGED notClear

ClearSpec == ClearInit /\ [][BNext]_vars

CanonInit == FInit /\ HParked /\ DParked /\ GParked /\ MParked /\ BParked

FNext ==
    \/ Canonicalize /\ UNCHANGED notCanon
    \/ CanonicalizeAgain /\ UNCHANGED notCanon

CanonSpec == CanonInit /\ [][FNext]_vars

(***************************************************************************)
(* Claims about the harness                                                *)
(***************************************************************************)

InDoWork == {w \in Workers : pc[w] = "do_work"}

\* C3: while start, stop, advance or new_piece holds the write guard of the bot
\* slot, no worker is inside do_work and no read guard is out.
C3_WritersExcludeWorkers ==
    writer = Coord => (InDoWork = {} /\ readers = {})

\* C3 witness: the coordinator holds the write guard for advance while one worker
\* that wants to begin a cycle is kept out at RwLock::read.
C3_Witness ==
    /\ writer = Coord
    /\ Step = "assign"
    /\ cop = "advance"
    /\ \E w \in Workers : pc[w] = "read"

\* Two workers are inside do_work at the same time.
C3_TwoWorkersInside == Cardinality(InDoWork) = 2

\* C4: a do_work cycle in flight runs on the bot it started with, which is present:
\* stop (or any writer) has not changed the slot under it, and no cycle begins
\* while the bot is absent.
C4_CycleKeepsItsBot ==
    \A w \in Workers : pc[w] = "do_work" => (data # <<>> /\ data = workBot[w])

\* C4 witness: stop has completed, and a worker that ran a cycle on the dropped
\* bot is now blocked on the condition variable.
C4_Witness ==
    /\ cop = "idle"
    /\ data = <<>>
    /\ \E w \in Workers : pc[w] = "wait" /\ workBot[w] # <<>>

\* C5: under fair scheduling a worker waiting on the condition variable while the
\* bot is present (a start has stored it) eventually runs do_work, unless the bot
\* is dropped again first.
C5_NoLostWakeup ==
    \A w \in Workers :
        (pc[w] = "wait" /\ data # <<>>) ~> (pc[w] = "do_work" \/ data = <<>>)

\* C5 witness: start has stored the bot while a worker is still parked on the
\* condition variable, before notify_all.
C5_Witness ==
    /\ cop = "start"
    /\ Step = "wrel"
    /\ data # <<>>
    /\ \E w \in Workers : pc[w] = "wait"

\* A writer has asked for exclusive access and has not completed.
WriterPending == Step = "wacq" \/ writer = Coord

\* C6: from the moment a writer waits for exclusive access until it has released
\* it, no worker is granted a read guard.
C6_WriterPreferred ==
    [][WriterPending => \A w \in Workers : w \in readers' => w \in readers]_vars

\* C6 witness: stop waits for a cycle in flight while another worker, which
\* arrived later, is held back at RwLock::read.
C6_Witness ==
    /\ Step = "wacq"
    /\ \E w \in Workers : pc[w] = "do_work"
    /\ \E w \in Workers : pc[w] = "read"

\* C7: the accumulated statistics equal the sum over the do_work cycles performed
\* since the most recent advance or start.
C7_StatsSinceReset == stats = expected

\* the coordinator has nothing to do and every worker sleeps on the condition variable
AtRest == cop = "idle" /\ \A w \in Workers : pc[w] = "wait"

\* C37: in BotSyncronizer, with one coordinator and the workers in work_loop, some
\* thread can always take its next step unless all of them are at rest, although
\* suggest asks for the mutex under the bot lock and the others for the bot lock
\* under the mutex.
C37_NoDeadlock ==
    harness = "sync" =>
        \/ AtRest
        \/ ENABLED CStep
        \/ \E w \in Workers :
              ENABLED (WLock(w) \/ WRead(w) \/ WCheck(w) \/ WDoWork(w) \/ WAccumulate(w))

\* C37 witness: suggest holds a read guard of the bot and waits for the mutex, which
\* a worker holds while it asks for a read guard of the bot.
C37_Witness ==
    /\ harness = "sync"
    /\ cop = "suggest"
    /\ Step = "lock"
    /\ Coord \in readers
    /\ \E w \in Workers : mutex = w /\ pc[w] = "read"


(***************************************************************************)
(* Claims about the search DAG                                             *)
(***************************************************************************)

\* the layers that have not been retired, and the nodes of a layer
Live == {d \in Layers : d >= top}
NodesOf(d) == DOMAIN states[d]
Expanded(d) == {s \in NodesOf(d) : states[d][s].children # <<>>}

\* C1: whatever the interleaving of the workers' select calls, a node is handed out
\* as expansion target at most once, and its expanding flag, once set, stays set.
C1_ExpandedOnce ==
    [][\A d \in Layers : \A s \in NodesOf(d) :
          /\ <<d, s>> \in DOMAIN selected' => selected'[<<d, s>>] <= 1
          /\ (s \in DOMAIN states'[d] /\ states[d][s].expanding) => states'[d][s].expanding]_vars

\* C1 witness: a node was handed to one select call and a second select that reached
\* it while its children were unset was turned away.
C1_Witness ==
    \E k \in refused : k \in DOMAIN selected /\ selected[k] = 1

IsSorted(list) ==
    \A i \in 1 .. (Len(list) - 1) : list[i].cached_eval >= list[i + 1].cached_eval

\* a per-piece list holds every placement generated for the piece, once each
IsComplete(s, p, list) ==
    /\ {list[i].mv : i \in 1 .. Len(list)} = Playable(s, p)
    /\ Len(list) = Cardinality(Playable(s, p))

\* C2: the children of a node are either unset or hold, for every piece, no entry or
\* all of them; and a node a reader can get hold of (its shard is not write-locked)
\* shows sorted lists only.
C2_NoTornChildren ==
    \A d \in Layers : \A s \in Expanded(d) : \A p \in Pieces :
        LET list == states[d][s].children[1][p]
        IN  /\ list = <<>> \/ IsComplete(s, p, list)
            /\ LockFree(d, s) => IsSorted(list)

\* C2 witness: one worker is half way through linking the children of a node it has
\* locked while the other worker waits to read the same node.
C2_Witness ==
    \E w1, w2 \in Workers :
        /\ wk[w1].pc = "create"
        /\ wk[w1].pending # <<>>
        /\ \E p \in Pieces : wk[w1].childs[p] # <<>>
        /\ wk[w2].pc = "select"
        /\ wk[w2].depth = wk[w1].depth
        /\ wk[w2].game_state = wk[w1].game_state

\* the node a worker is updating between writing an entry and moving it into place
InShift(d, s) ==
    \E w \in Workers :
        wk[w].pc = "bp_shift" /\ wk[w].depth = d /\ Head(wk[w].updates).parent = s

\* C8: every per-piece child list is in non-increasing cached_eval order, except
\* inside the backprop step that has rewritten one entry and not yet moved it.
C8_ListsSorted ==
    \A d \in Layers : \A s \in Expanded(d) :
        ~InShift(d, s) => \A p \in Pieces : IsSorted(states[d][s].children[1][p])

\* C8 witness: backprop has changed the order of a list: an entry that entered the
\* list above another one now stands below it, and the list is in order.
C8_Witness ==
    \E d \in Layers : \E s \in Expanded(d) : \E p \in Pieces :
        LET list == states[d][s].children[1][p]
            was(c) == EvalOf(GsAdvance(s, p, c.mv)) + c.reward
        IN  /\ ~InShift(d, s)
            /\ IsSorted(list)
            /\ \E i, j \in 1 .. Len(list) :
                  /\ i < j
                  /\ list[i].cached_eval > list[j].cached_eval
                  /\ was(list[i]) < was(list[j])

\* the recomputation rule: known layers take the better of the piece and the reserve
RuleEval(d, s) ==
    LET node == states[d][s]
        kids == node.children[1]
        ps   == PiecesIn(NextPossibilities(layer_piece[d], node.bag))
    IN  IF layer_piece[d] # NoPiece
        THEN Average([i \in 1 .. Len(ps) |-> OptMax(First(kids[ps[i]]), First(kids[node.reserve]))])
        ELSE Average([i \in 1 .. Len(ps) |-> First(kids[ps[i]])])

\* C9: while no do_work cycle is in flight, the eval of every expanded node of a
\* live layer is what the recomputation rule gives for its current children.  Layers
\* that turned from speculated to known under their expanded nodes are left out, so
\* that only expand and backprop can be responsible for a difference.
C9_EvalIsRecomputed ==
    AllIdle => \A d \in Live \ revealed : \A s \in Expanded(d) :
                  states[d][s].eval = RuleEval(d, s)

\* C10: every child entry of an expanded node of a live layer leads to a node of the
\* next layer, and no worker has failed to find a node.
C10_ChildrenExist ==
    /\ \A d \in Live : \A s \in Expanded(d) : \A p \in Pieces :
          LET list == states[d][s].children[1][p]
          IN  \A i \in 1 .. Len(list) : GsAdvance(s, p, list[i].mv) \in NodesOf(d + 1)
    /\ \A w \in Workers : wk[w].pc # "panic"

\* C10 witness: after an advance, a select has followed a child entry of the new root
\* and stands at the node it leads to.
C10_Witness ==
    /\ top > 0
    /\ \E w \in Workers :
          /\ wk[w].pc = "select"
          /\ wk[w].depth = top + 1
          /\ wk[w].game_state \in NodesOf(top + 1)
          /\ \E p \in Pieces :
                \E i \in 1 .. Len(states[top][root].children[1][p]) :
                    GsAdvance(root, p, states[top][root].children[1][p][i].mv) = wk[w].game_state

\* a step of new_piece: the only operation that lengthens the queue
IsNewPiece == Len(queue') > Len(queue)

\* the first layer, from the top, whose piece is unset
IsFirstUnset(d) ==
    /\ d \in Live
    /\ layer_piece[d] = NoPiece
    /\ \A e \in top .. (d - 1) : layer_piece[e] # NoPiece

\* C11: new_piece(P) gives the first layer without a piece the piece P, and after it
\* every expanded node of that layer has an empty child list for every other piece.
C11_OtherListsEmptied ==
    [][IsNewPiece =>
          \A d \in Layers : IsFirstUnset(d) =>
              /\ layer_piece'[d] = queue'[Len(queue')]
              /\ \A s \in DOMAIN states'[d] :
                    states'[d][s].children # <<>> =>
                        \A q \in Pieces \ {layer_piece'[d]} :
                            states'[d][s].children[1][q] = <<>>]_vars

\* C12: new_piece changes the piece of the first unset layer and nothing else of the
\* DAG: the root, the other layers' pieces, the node keys and every node's eval stay.
C12_NewPieceFrame ==
    [][IsNewPiece =>
          /\ root' = root
          /\ top' = top
          /\ \A d \in Layers :
                /\ ~IsFirstUnset(d) => layer_piece'[d] = layer_piece[d]
                /\ DOMAIN states'[d] = DOMAIN states[d]
                /\ \A s \in DOMAIN states[d] : states'[d][s].eval = states[d][s].eval]_vars

\* C12 witness: new_piece has set the piece of a layer below a known top layer, and
\* that layer already held an expanded node.
C12_Witness ==
    /\ revealed # {}
    /\ \E d \in revealed : d > top /\ layer_piece[d] # NoPiece /\ Expanded(d) # {}


\* a step of advance: the only operation that retires a layer
IsAdvance == top' # top

\* C13: advance moves the root by the top layer's piece and the placement, promotes
\* the second layer with every node as it was, and adds a default node for the new
\* root only if the layer had none.
C13_AdvancePromotes ==
    [][IsAdvance =>
          /\ top' = top + 1
          /\ \E mv \in [piece : Pieces, x : Cols] :
                root' = GsAdvance(root, layer_piece[top], mv)
          /\ DOMAIN states'[top'] = NodesOf(top') \cup {root'}
          /\ \A s \in NodesOf(top') : states'[top'][s] = states[top'][s]
          /\ root' \notin NodesOf(top') => states'[top'][root'] = NewNode(DefaultEval, root')
          /\ \A d \in Layers : d > top' => states'[d] = states[d]]_vars

\* C13 witness: advance has promoted a layer in which the new root was already
\* explored, and the root still has those children.
C13_Witness ==
    /\ top > 0
    /\ promoted = "explored"
    /\ states[top][root].children # <<>>
    /\ states[top][root].parents # <<>>

\* C14: the root, the played state and the top layer move only when the queue and
\* the top layer hold a next piece; an advance without one ends in a panic.
C14_AdvanceNeedsPiece ==
    [][(queue = <<>> \/ layer_piece[top] = NoPiece) =>
          /\ root' = root
          /\ current' = current
          /\ top' = top
          /\ queue' # queue => IsNewPiece]_vars

\* C14 witness: advance was called on a bot without a next piece and panicked.
C14_Witness ==
    /\ bot_panicked
    /\ queue = <<>>
    /\ layer_piece[top] = NoPiece


\* C15: read while the root is not being written, suggest gives nothing for a root
\* without children, and otherwise exactly one placement per next possibility with
\* a non-empty list, the first of that list, best cached_eval first.
C15_SuggestBestPerPiece ==
    LockFree(top, root) =>
        LET node == states[top][root]
        IN  IF node.children = <<>> THEN Suggest = <<>>
            ELSE LET kids == node.children[1]
                     ps   == {p \in NextPossibilities(layer_piece[top], root.bag) :
                                 kids[p] # <<>>}
                     n    == Cardinality(ps)
                 IN  /\ Len(Suggest) = n
                     /\ \E f \in [1 .. n -> ps] :
                           /\ \A i, j \in 1 .. n : f[i] = f[j] => i = j
                           /\ \A i \in 1 .. n : Suggest[i] = kids[f[i]][1].mv
                           /\ \A i \in 1 .. (n - 1) :
                                 kids[f[i]][1].cached_eval >= kids[f[i + 1]][1].cached_eval

\* C15 witness: on a speculated top layer suggest returns two placements, and the
\* better one belongs to the piece that comes later in the bag.
C15_Witness ==
    /\ LockFree(top, root)
    /\ layer_piece[top] = NoPiece
    /\ states[top][root].children # <<>>
    /\ Len(Suggest) = 2
    /\ LET kids == states[top][root].children[1]
       IN  \E i, j \in 1 .. Len(PieceSeq) :
              /\ i < j
              /\ kids[PieceSeq[i]] # <<>>
              /\ kids[PieceSeq[j]] # <<>>
              /\ kids[PieceSeq[j]][1].cached_eval > kids[PieceSeq[i]][1].cached_eval
              /\ Suggest[1] = kids[PieceSeq[j]][1].mv


\* C16: with speculation disabled, a worker never holds, for expansion, a node of a
\* layer whose piece is unknown, and never stands below such a layer.
C16_NoSpeculationWhenDisabled ==
    ~speculate =>
        \A w \in Workers :
            /\ wk[w].pc \in {"expand", "create"} => layer_piece[wk[w].depth] # NoPiece
            /\ wk[w].pc = "select" =>
                  \A d \in top .. (wk[w].depth - 1) : layer_piece[d] # NoPiece

\* a worker is in backprop at an update whose piece is not the piece of the
\* known layer it updates
ForeignUpdate(w) ==
    /\ wk[w].pc \in {"bp", "bp_read", "bp_shift"}
    /\ layer_piece[wk[w].depth] \notin {NoPiece, Head(wk[w].updates).piece}

\* C32: a backprop update whose speculation piece differs from the piece of the
\* known layer changes nothing in that layer, no entry, list or eval, and sends
\* no update to the layer above.
C32_ForeignUpdateIgnored ==
    [][\A w \in Workers :
          (ForeignUpdate(w) /\ wk'[w] # wk[w]) =>
              /\ states'[wk[w].depth] = states[wk[w].depth]
              /\ wk'[w].depth = wk[w].depth => wk'[w].next_up = wk[w].next_up
              /\ (wk'[w].depth # wk[w].depth /\ wk'[w].pc = "bp") =>
                     wk'[w].updates = wk[w].next_up]_vars

\* the node the entry c of the list for piece p of node s leads to
ChildOf(s, p, c) == GsAdvance(s, p, c.mv)

\* the entries of the per-piece lists of a node
ChildEntries(d, s) ==
    UNION {{<<p, states[d][s].children[1][p][i]>> :
               i \in 1 .. Len(states[d][s].children[1][p])} : p \in Pieces}

\* C33: whenever no do_work cycle is in flight, every child entry of every node of a
\* live layer caches the current eval of the child node plus the entry's reward.
C33_CachedEvalCurrent ==
    AllIdle => \A d \in Live : \A s \in Expanded(d) : \A e \in ChildEntries(d, s) :
        /\ ChildOf(s, e[1], e[2]) \in NodesOf(d + 1)
        /\ e[2].cached_eval = states[d + 1][ChildOf(s, e[1], e[2])].eval + e[2].reward

\* C33 witness: all workers are idle, a node with two parents in a live layer has been
\* expanded, its eval is no longer the one it was created with, and both parents cache it.
C33_Witness ==
    /\ AllIdle
    /\ \E d \in Live : \E s1, s2 \in Expanded(d) : \E e1 \in ChildEntries(d, s1) :
         \E e2 \in ChildEntries(d, s2) :
            LET n == ChildOf(s1, e1[1], e1[2]) IN
            /\ s1 # s2
            /\ n = ChildOf(s2, e2[1], e2[2])
            /\ n \in Expanded(d + 1)
            /\ states[d + 1][n].eval # EvalOf(n)
            /\ e1[2].cached_eval = states[d + 1][n].eval + e1[2].reward
            /\ e2[2].cached_eval = states[d + 1][n].eval + e2[2].reward

\* the entries of a parents list
ParentLinks(d, n) == {states[d][n].parents[i] : i \in 1 .. Len(states[d][n].parents)}

\* a worker links the next generated child
Links(w) ==
    /\ wk[w].pc = "create"
    /\ wk[w].pending # <<>>
    /\ wk'[w].pc = "create"
    /\ wk'[w].pending = Tail(wk[w].pending)

\* C34: when expansions produce a resulting state the next layer already holds, the
\* node found there keeps its eval, children and expanding flag and gains one parents
\* entry; a state has one node, and its parents list holds every generated
\* (parent, placement, piece) link exactly once.
C34_SharedChildKept ==
    /\ [](\A d \in Live :
            /\ \A s \in Expanded(d) : \A e \in ChildEntries(d, s) :
                  LET n == ChildOf(s, e[1], e[2]) IN
                  /\ n \in NodesOf(d + 1)
                  /\ Cardinality({i \in 1 .. Len(states[d + 1][n].parents) :
                                     states[d + 1][n].parents[i] = <<s, e[2].mv, e[1]>>}) = 1
            /\ \A n \in NodesOf(d) :
                  Cardinality(ParentLinks(d, n)) = Len(states[d][n].parents))
    /\ [][\A w \in Workers : Links(w) =>
             LET c  == Head(wk[w].pending)
                 d1 == wk[w].depth + 1
                 k  == c.resulting_state
             IN  k \in NodesOf(d1) =>
                    /\ DOMAIN states'[d1] = DOMAIN states[d1]
                    /\ states'[d1][k].eval = states[d1][k].eval
                    /\ states'[d1][k].children = states[d1][k].children
                    /\ states'[d1][k].expanding = states[d1][k].expanding
                    /\ states'[d1][k].parents =
                          Append(states[d1][k].parents, <<wk[w].game_state, c.mv, c.piece>>)]_vars

\* C34 witness: two workers are expanding different nodes of one layer at the same
\* time and a node of the next layer already carries a link from each of them.
C34_Witness ==
    \E w1, w2 \in Workers : \E n \in NodesOf(wk[w1].depth + 1) :
        /\ w1 # w2
        /\ wk[w1].pc = "create" /\ wk[w2].pc = "create"
        /\ wk[w1].depth = wk[w2].depth
        /\ wk[w1].game_state # wk[w2].game_state
        /\ \E l1, l2 \in ParentLinks(wk[w1].depth + 1, n) :
              l1[1] = wk[w1].game_state /\ l2[1] = wk[w2].game_state

\* C35: after new and any sequence of advance and new_piece, the layers from the top
\* one on hold the queued pieces in order, every layer below them has no piece, and
\* the state the bot plays from is the root of the DAG.
C35_LayersFollowQueue ==
    /\ current = root
    /\ \A d \in Live :
          layer_piece[d] = IF d - top < Len(queue) THEN queue[d - top + 1] ELSE NoPiece

\* C35 witness: a placement has been played, a piece has arrived since, and the queue
\* ends before the deepest layer.
C35_Witness ==
    /\ top >= 1
    /\ \A q \in InitQueues : Len(queue) >= Len(q)
    /\ root.board # {}
    /\ layer_piece[top] = queue[1]
    /\ \E d \in Live : layer_piece[d] = NoPiece
    /\ ~bot_panicked

\* the shard locks a worker holds
Held(w) == {k \in DOMAIN locks : locks[k] = w}

\* the shard lock the next statement of a worker asks for
Wanted(w) ==
    CASE wk[w].pc \in {"select", "expand"} -> {<<wk[w].depth, ShardOf(wk[w].game_state)>>}
      [] wk[w].pc = "create" /\ wk[w].pending # <<>> ->
            {<<wk[w].depth + 1, ShardOf(Head(wk[w].pending).resulting_state)>>}
      [] wk[w].pc = "bp" -> {<<wk[w].depth, ShardOf(Head(wk[w].updates).parent)>>}
      [] wk[w].pc = "bp_read" -> {<<wk[w].depth + 1, ShardOf(Head(wk[w].updates).child)>>}
      [] OTHER -> {}

\* C36: a worker holds at most one shard lock per layer, while it holds a lock of
\* layer L the lock it asks for is one of layer L + 1, and a worker that holds a shard
\* lock reaches a state in which it has released it and holds none.
C36_LocksOrdered ==
    /\ [](\A w \in Workers :
            /\ \A k1, k2 \in Held(w) : k1[1] = k2[1] => k1 = k2
            /\ \A k \in Held(w) : \A q \in Wanted(w) : q[1] = k[1] + 1)
    /\ \A w \in Workers : (Held(w) # {}) ~> (Held(w) = {})

\* C36 witness: a worker that holds the lock of a parent waits for the lock of a child
\* in the next layer, which another worker holds while it expands that child.
C36_Witness ==
    \E w1, w2 \in Workers :
        /\ w1 # w2
        /\ Held(w1) # {} /\ Held(w2) # {}
        /\ Wanted(w1) \subseteq Held(w2)
        /\ Wanted(w1) # {}

\* an expanded node for which the move generator found no placement
DeadEnd(d, s) ==
    /\ s \in Expanded(d)
    /\ \A p \in Pieces : states[d][s].children[1][p] = <<>>

\* C38: whenever no do_work cycle is in flight, a node of a live layer has its
\* expanding flag set exactly if its children are set; and a select that arrives at an
\* expanded node without placements returns nothing and claims no node.
C38_ClaimedIffExpanded ==
    /\ [](AllIdle => \A d \in Live : \A s \in NodesOf(d) :
              states[d][s].expanding <=> (states[d][s].children # <<>>))
    /\ [][\A w \in Workers :
             (/\ wk[w].pc = "select"
              /\ DeadEnd(wk[w].depth, wk[w].game_state)
              /\ wk'[w] # wk[w]) =>
                 /\ wk'[w] = Idle
                 /\ states' = states
                 /\ selected' = selected]_vars

\* C38 witness: a node without placements has been expanded, its flag and its empty
\* children are both set, and a later select has walked to it.
C38_Witness ==
    \E w \in Workers :
        /\ wk[w].pc = "select"
        /\ DeadEnd(wk[w].depth, wk[w].game_state)
        /\ states[wk[w].depth][wk[w].game_state].expanding
        /\ \A v \in Workers \ {w} : wk[v].pc = "idle"

\* the update a worker in backprop is working on
Update(w) == Head(wk[w].updates)

\* C39: every parents entry of a node below a live layer names a node of that layer
\* that leads to it by the entry's piece and placement; once backprop has locked the
\* parent of an update, the parent's children are set and its list for the update's
\* piece holds the update's placement, and the child is in the next layer; no lookup
\* of select, expand or backprop fails.
C39_LookupsSucceed ==
    /\ \A d \in Live \cap {e - 1 : e \in Layers} :
          \A n \in NodesOf(d + 1) : \A l \in ParentLinks(d + 1, n) :
          /\ l[1] \in NodesOf(d)
          /\ GsAdvance(l[1], l[3], l[2]) = n
    /\ \A w \in Workers :
          /\ wk[w].pc # "panic"
          /\ wk[w].pc = "bp" => Update(w).parent \in NodesOf(wk[w].depth)
          /\ wk[w].pc \in {"bp_read", "bp_shift"} =>
                /\ Update(w).parent \in Expanded(wk[w].depth)
                /\ Update(w).child \in NodesOf(wk[w].depth + 1)
                /\ \E e \in ChildEntries(wk[w].depth, Update(w).parent) :
                      e[1] = Update(w).piece /\ e[2].mv = Update(w).mv

\* C39 witness: a worker in backprop waits for the lock of a parent that another
\* worker is still expanding: the parent linked the child while the child was
\* being expanded.
C39_Witness ==
    \E w1, w2 \in Workers :
        /\ wk[w1].pc = "bp"
        /\ wk[w2].pc = "create"
        /\ wk[w2].depth = wk[w1].depth
        /\ wk[w2].game_state = Update(w1).parent
        /\ states[wk[w1].depth][Update(w1).parent].children = <<>>

(***************************************************************************)
(* Claims about the game state transition                                  *)
(***************************************************************************)

Advanced == placements > 0

\* C17: advance sets the bag to the old bag minus the next piece, or to all
\* the pieces when that is empty, so the bag is never empty.
C17_BagRefilled ==
    Advanced =>
        /\ game.bag = (IF prev.bag \ {last_next} # {} THEN prev.bag \ {last_next} ELSE Pieces)
        /\ game.bag # {}

\* an advance that took the last piece of the bag
C17_Witness == Advanced /\ prev.bag = {last_next} /\ game.bag = Pieces

\* C18: advance sets reserve to the next piece iff the placed piece is not
\* the next piece, and every generated placement places the next piece or the
\* piece that was in reserve.
C18_HoldSwapsReserve ==
    Advanced =>
        /\ game.reserve = (IF last_mv.location.piece # last_next THEN last_next
                           ELSE prev.reserve)
        /\ last_mv.location.piece \in {last_next, prev.reserve}

\* a hold: the reserve was placed and the next piece took its place
C18_Witness ==
    /\ Advanced
    /\ last_mv.location.piece # last_next
    /\ last_mv.location.piece = prev.reserve
    /\ game.reserve = last_next
    /\ game.reserve # prev.reserve

\* C19: advance adds one to combo (up to 255) when the placement clears a
\* line and resets it to 0 when it clears none; PlacementInfo.combo is the
\* updated value.
C19_ComboCounts ==
    Advanced =>
        /\ game.combo = (IF info.lines_cleared = 0 THEN 0
                         ELSE IF prev.combo < 255 THEN prev.combo + 1 ELSE 255)
        /\ info.combo = game.combo

\* C20: with hard = four lines or a spin, a clearing placement reports
\* back_to_back = hard and the prior back_to_back and sets the state's
\* back_to_back to hard; a placement that clears nothing leaves the state's
\* back_to_back and reports false.  So the second of two four-line clears
\* with no smaller clear in between reports back_to_back.
C20_BackToBack ==
    Advanced =>
        LET hard == info.lines_cleared = 4 \/ last_mv.spin # "None"
        IN  /\ info.lines_cleared > 0 =>
                /\ info.back_to_back = (hard /\ prev.back_to_back)
                /\ game.back_to_back = hard
            /\ info.lines_cleared = 0 =>
                /\ game.back_to_back = prev.back_to_back
                /\ info.back_to_back = FALSE
            /\ tetrises >= 1 => game.back_to_back
            /\ (tetrises >= 2 /\ info.lines_cleared = 4) => info.back_to_back

\* the second of two four-line clears within three placements
C20_Witness ==
    /\ tetrises = 2
    /\ info.lines_cleared = 4
    /\ info.back_to_back
    /\ placements = 3

(***************************************************************************)
(* Claims about the move generator                                         *)
(***************************************************************************)

\* find_moves has returned for the board and piece it was called with
Returned == mpc = "done" /\ ~reference

\* the placements and distances find_moves returned
Entries == {result[i] : i \in 1 .. Len(result)}

\* C21: after GameState::advance with a placement returned by find_moves for a
\* board without blocks above row 39, no column has a block above row 39, no
\* row is completely filled, and perfect_clear is reported exactly when all
\* ten columns are empty.
C21_AdvanceKeepsBoard ==
    mpc = "locked" =>
        /\ \A x \in Xs : locked[1].state.board[x] \subseteq Ys
        /\ LineClears(locked[1].state.board) = {}
        /\ locked[1].info.perfect_clear <=> (\A x \in Xs : locked[1].state.board[x] = {})

\* C23: every entry returned by find_moves has its four cells inside the ten
\* columns and forty rows and on empty cells of the board, a location equal to
\* its canonical form, a piece that cannot move one row down, and a distance
\* that is not negative.
C23_ReturnedPlacementsValid ==
    Returned =>
        \A e \in Entries :
            /\ \A c \in Cells(e[1].location) :
                   c[1] \in Xs /\ c[2] \in Ys /\ c[2] \notin mg_board[c[1]]
            /\ CanonicalForm(e[1].location) = e[1].location
            /\ \E c \in Cells(e[1].location) : c[2] = 0 \/ (c[2] - 1) \in mg_board[c[1]]
            /\ e[2] >= 0

\* C24: find_moves returns no two entries whose locations have the same
\* canonical form, whatever their spins, and no seed of the fast mode is
\* returned a second time by the exploration.
C24_NoEquivalentEntries ==
    Returned =>
        \A i, j \in 1 .. Len(result) :
            i # j => CanonicalForm(result[i][1].location) # CanonicalForm(result[j][1].location)

\* the positions find_moves starts from: the seeds of the fast mode that are
\* not obstructed, or the spawn position
Starts(board, piece, fast) ==
    IF fast
    THEN {[location |-> SeedLocation(piece, n), spin |-> NoSpin] :
            n \in {m \in 0 .. (SeedCount - 1) : ~Obstructed(board, SeedLocation(piece, m))}}
    ELSE IF ~Obstructed(board, SpawnAt(piece, SpawnY))
         THEN {[location |-> SpawnAt(piece, SpawnY), spin |-> NoSpin]}
    ELSE IF ~Obstructed(board, SpawnAt(piece, SpawnY + 1))
         THEN {[location |-> SpawnAt(piece, SpawnY + 1), spin |-> NoSpin]}
    ELSE {}

\* the positions one shift, rotation or drop of distance 0 away
Free(board, mv) ==
    {Moves(board, mv.location)[i].mv[1] :
        i \in {j \in 1 .. 4 : Moves(board, mv.location)[j].mv # <<>>}}
    \cup (IF DropDistance(board, mv.location) = 0 THEN {Dropped(board, mv)} ELSE {})

\* the positions reached from a frontier by moves that add no drop distance
RECURSIVE Closure(_, _, _)
Closure(board, frontier, seen) ==
    IF frontier = {} THEN seen
    ELSE Closure(board, (UNION {Free(board, mv) : mv \in frontier}) \ seen,
                 seen \cup ((UNION {Free(board, mv) : mv \in frontier}) \ seen))

\* the least sum of drop distances with which every position is reached:
\* level is the sum being settled, dist the positions settled with a smaller
\* sum, pending the drops <<position, sum>> out of settled positions
RECURSIVE Least(_, _, _, _)
Least(board, level, dist, pending) ==
    IF level >= Unreached \/ pending = {} THEN dist
    ELSE LET start == {p[1] : p \in {q \in pending : q[2] = level}} \ DOMAIN dist
             now   == Closure(board, start, start \cup DOMAIN dist) \ DOMAIN dist
             drops == {<<Dropped(board, mv), level + DropDistance(board, mv.location)>> :
                         mv \in {n \in now : DropDistance(board, n.location) > 0}}
         IN  Least(board, level + 1,
                   [mv \in DOMAIN dist \cup now |-> IF mv \in now THEN level ELSE dist[mv]],
                   {q \in pending : q[2] > level} \cup drops)

\* the least sum with which a key of underground_locks is reached
LeastOf(dist, key) ==
    SetMin({dist[mv] : mv \in {n \in DOMAIN dist : LockKey(Dropped(mg_board, n)) = key}})

\* C25: the distance of every returned entry is the least sum, over all
\* sequences of shifts, rotations and drops from the start positions that reach
\* the placement, of the drop distances that were followed by a further move.
C25_LeastSoftDrop ==
    Returned =>
        LET dist == Least(mg_board, 0, EmptyMap,
                          {<<mv, 0>> : mv \in Starts(mg_board, mg_piece, fast_mode)})
        IN  \A e \in Entries :
                /\ \E mv \in DOMAIN dist : LockKey(Dropped(mg_board, mv)) = e[1]
                /\ e[2] = LeastOf(dist, e[1])

\* C26: for piece I on the empty board find_moves returns 17 entries with 17
\* different locations: I North on the floor at the columns 1 to 7 and I East
\* on the floor at the columns 0 to 9.
C26_EmptyBoardI ==
    (Returned /\ mg_board = EmptyBoard /\ mg_piece = "I") =>
        /\ Len(result) = 17
        /\ {e[1] : e \in Entries} =
               {[location |-> [piece |-> "I", rotation |-> "North", x |-> x, y |-> 0],
                 spin |-> NoSpin] : x \in 1 .. 7}
               \cup {[location |-> [piece |-> "I", rotation |-> "East", x |-> x, y |-> 2],
                      spin |-> NoSpin] : x \in Xs}

\* find_moves has returned 17 entries for piece I on the empty board
C26_Witness ==
    /\ Returned
    /\ mg_board = EmptyBoard
    /\ mg_piece = "I"
    /\ fast_mode
    /\ Cardinality({e[1].location : e \in Entries}) = 17

\* C27: for a board of height at most 16, the fast mode returns the same
\* placements with the same distances as the exploration from the spawn position
\* without pruning.
C27_FastModeSameResult ==
    (mpc = "done" /\ reference) =>
        {fast_result[i] : i \in 1 .. Len(fast_result)} = Entries

\* C28: no candidate is popped while a queued candidate has a strictly smaller
\* softdrop distance.
C28_PopsAscending ==
    mpc = "popped" => \A i \in 1 .. Len(heap) : heap[i].soft_drops >= expand.soft_drops

\* the targets of the five kicks of a rotation, in the order of the table
KickTargets(r) ==
    [i \in 1 .. 5 |->
        KickTarget([r.from EXCEPT !.rotation = r.to],
                   Kicks(r.from.piece, r.from.rotation, r.to)[i])]

\* the filled or out of bounds cells among the given cells around a centre
Filled(target, cells) ==
    Cardinality({c \in cells : Occupied(mg_board, <<target.x + c[1], target.y + c[2]>>)})

\* C29: a rotation succeeds with the first of the five kick targets, in table
\* order, that is not obstructed; for a T piece the spin is None when fewer
\* than three of the four cells diagonal to the centre are filled or out of
\* bounds, Full when both front corners are filled or the fifth kick was
\* accepted, and Mini otherwise.
C29_RotateClassifies ==
    \A r \in rotations :
        r.from.piece # "O" =>
            /\ r.got = <<>> <=> \A i \in 1 .. 5 : Obstructed(mg_board, KickTargets(r)[i])
            /\ r.got # <<>> =>
                  \E i \in 1 .. 5 :
                      /\ r.got[1].location = KickTargets(r)[i]
                      /\ ~Obstructed(mg_board, KickTargets(r)[i])
                      /\ \A j \in 1 .. (i - 1) : Obstructed(mg_board, KickTargets(r)[j])
                      /\ r.from.piece = "T" =>
                            r.got[1].spin =
                                IF Filled(r.got[1].location,
                                          {<<-1, -1>>, <<1, -1>>, <<-1, 1>>, <<1, 1>>}) < 3
                                THEN "None"
                                ELSE IF \/ i = 5
                                        \/ Filled(r.got[1].location,
                                                  {RotateCell(r.to, <<-1, 1>>),
                                                   RotateCell(r.to, <<1, 1>>)}) = 2
                                     THEN "Full"
                                ELSE "Mini"

\* a T piece was rotated with the fifth kick of the table, with one front
\* corner empty, into a Full spin
C29_Witness ==
    \E r \in rotations :
        /\ r.from.piece = "T"
        /\ r.got # <<>>
        /\ r.got[1].spin = "Full"
        /\ r.got[1].location = KickTargets(r)[5]
        /\ Filled(r.got[1].location,
                  {RotateCell(r.to, <<-1, 1>>), RotateCell(r.to, <<1, 1>>)}) < 2

\* C30: a placement with a spin is a T piece reached only by a rotation, never
\* by a shift or a drop over a distance; a returned placement with a spin is the
\* target of a rotation at which the piece rests on the ground; the seeds of
\* the fast mode are returned with Spin::None.
C30_SpinOnlyFromGroundedRotation ==
    /\ \A mv \in DOMAIN origin :
           mv.spin # NoSpin =>
               /\ mv.location.piece = "T"
               /\ origin[mv] \subseteq {"rotate", "drop0"}
               /\ "rotate" \in origin[mv]
    /\ \A i \in 1 .. Len(seed_locks) : seed_locks[i][1].spin = NoSpin
    /\ mpc = "done" =>
           \A e \in Entries :
               e[1].spin # NoSpin =>
                   /\ e[1].location.piece = "T"
                   /\ e[1] \in DOMAIN origin
                   /\ "rotate" \in origin[e[1]]
                   /\ DropDistance(mg_board, e[1].location) = 0

\* find_moves has returned a T placement with a spin, and the exploration has
\* dropped a T with a spin from a rotation that ended above the ground
C30_Witness ==
    /\ mpc = "done"
    /\ \E e \in Entries : e[1].spin = "Mini"
    /\ \E e \in Entries : e[1].spin = "Full"
    /\ \E mv \in DOMAIN origin :
           mv.spin # NoSpin /\ DropDistance(mg_board, mv.location) > 0

\* find_moves is between its call and its return
Exploring == mpc \in {"seed", "spawn", "loop", "popped"}

\* the candidates in the queue
Queued(h) == {h[i] : i \in 1 .. Len(h)}

\* PieceLocation.y is an i8
MaxY == 127

\* the recorded positions whose value is below n, counted for n = 1 .. to
RECURSIVE Below(_, _)
Below(map, to) ==
    IF to = 0 THEN 0
    ELSE Cardinality({k \in DOMAIN map : map[k] < to}) + Below(map, to - 1)

\* how far the recorded values lie below 40, summed over the recorded positions
Gained(map) == Below(map, Unreached)

\* a measure of the work find_moves has left: it is at least
\* -3 * 40 * (number of placements on the board), and every statement lowers it
Rank ==
    2 * Len(heap) - 3 * Gained(values)
    + (IF mpc = "popped" THEN 1 ELSE 0)
    + (IF mpc = "spawn" THEN 1 ELSE 0)
    + (IF mpc = "seed" THEN SeedCount - seed ELSE 0)

\* the statement find_moves is at can run: none of them waits for anything
Runnable ==
    \/ mpc \in {"seed", "spawn"}
    \/ mpc = "loop" /\ (heap # <<>> \/ heap = <<>>)
    \/ mpc = "popped" /\ (Superseded \/ ~Superseded)

\* C40: find_moves comes to its end for every board and piece: a position is enqueued
\* only with a softdrop value below the one recorded for it, which becomes its new
\* recorded value; recorded values never rise and lie between 0 and 40; the positions
\* lie in a finite range; every statement before the return can run and lowers a
\* measure that is bounded below; and every softdrop distance returned is below 40.
C40_FindMovesTerminates ==
    /\ [](\A mv \in DOMAIN values :
             /\ values[mv] \in 0 .. Unreached
             /\ mv.location.x \in Xs
             /\ mv.location.y \in 0 .. MaxY)
    /\ [](mpc = "done" => \A i \in 1 .. Len(result) : result[i][2] \in 0 .. (Unreached - 1))
    /\ [](Exploring => Runnable)
    /\ [][reference' = reference =>
             /\ Len(heap') - Len(heap) <= Cardinality(Queued(heap') \ Queued(heap))
             /\ \A e \in Queued(heap') \ Queued(heap) :
                   /\ e.soft_drops < ValueOf(values, e.mv)
                   /\ ValueOf(values', e.mv) <= e.soft_drops
             /\ \A mv \in DOMAIN values : ValueOf(values', mv) <= values[mv]
             /\ (Exploring /\ Exploring') => Rank' < Rank]_vars

\* C40 witness: a candidate was popped whose position has been enqueued again with a
\* lower value since.
C40_Witness ==
    /\ mpc = "popped"
    /\ expand.soft_drops > ValueOf(values, expand.mv)
    /\ ValueOf(values, expand.mv) < Unreached

(***************************************************************************)
(* Claims about clear_lines                                                *)
(***************************************************************************)

\* C22: clear_lines leaves exactly the bits of the column whose row is not in
\* the mask, in order and packed towards bit 0: the bit-extract of the column
\* by the complement of the mask; the loop of the portable build and the
\* single instruction of the bmi2 build give this same word.
C22_ClearLinesExtracts ==
    cpc = "done" =>
        /\ col = Pext(col_in, Not(lines_in), WordBits)
        /\ BitsOf(col) = ClearLines(BitsOf(col_in), BitsOf(lines_in))

\* the portable loop has removed two rows, with filled rows between and above them
C22_Witness ==
    /\ cpc = "done"
    /\ build = "portable"
    /\ BitsOf(lines_in) = {1, 3}
    /\ BitsOf(col_in) = {0, 2, 4}
    /\ BitsOf(col) = {0, 1, 2}

(***************************************************************************)
(* Claims about canonical_form                                             *)
(***************************************************************************)

\* C31: canonical_form applied twice gives what it gives once; the canonical
\* form occupies the same four cells as the location; two locations of one
\* piece occupy the same cells exactly when their canonical forms are equal;
\* the canonical rotation is North for O, North or East for S, Z and I, and
\* the canonical form of a T, L or J location is the location.
C31_CanonicalForm ==
    /\ fpc \in {"once", "twice"} =>
          /\ Cells(canon_a) = Cells(loc_a)
          /\ Cardinality(Cells(canon_a)) = 4
          /\ (Cells(loc_a) = Cells(loc_b)) <=> (canon_a = canon_b)
          /\ loc_a.piece = "O" => canon_a.rotation = "North"
          /\ loc_a.piece \in {"S", "Z", "I"} => canon_a.rotation \in {"North", "East"}
          /\ loc_a.piece \in {"T", "L", "J"} => canon_a = loc_a
          /\ canon_a.piece = loc_a.piece
    /\ fpc = "twice" => again_a = canon_a

\* canonical_form was applied twice to an S West location, and the other
\* location is the S East location with the same cells
C31_Witness ==
    /\ fpc = "twice"
    /\ loc_a.piece = "S"
    /\ loc_a.rotation = "West"
    /\ loc_b.rotation = "East"
    /\ loc_a # loc_b
    /\ Cells(loc_a) = Cells(loc_b)
    /\ canon_a = loc_b

====
